---- MODULE Spec2Model ----
(***************************************************************************)
(* State-machine model of the two servers of the repository:               *)
(*   - the staged pipeline  (FinalProject/part11/server_pipeline.c)        *)
(*   - the leader/follower pool (FinalProject/part8/server.c)              *)
(* Every thread is a process with a program counter; one action is one     *)
(* atomic block of its code.  A block holds at most one access to data     *)
(* that is not protected by a mutex (the volatile shutdown flag), so that   *)
(* every interleaving of the flag with the mutex-protected code is kept.   *)
(***************************************************************************)
EXTENDS Integers, Sequences, FiniteSets, TLC

(* ---- bounds of the model ---- *)

\* Ring capacity of one BlockingQueue.  The source sets 32
\* (server_pipeline.c:20); the model scales the ring so that a full queue
\* and the wrap-around of head and tail are reached.
MAX_QUEUE == 2

\* Connections the acceptor takes over a run: each gets a handler thread of
\* its own, and at most one job id.
MaxJobs == 3

(* ---- program constants ---- *)

\* The four stage workers / stage queues.
\* The graphs of the graph module's checks: GraphN vertices, at most MaxEdges edges.
GraphN == 3
MaxEdges == 3

NUM_STAGES == 4

\* Workers of the leader/follower pool.
THREAD_POOL_SIZE == 4

\* The null job pointer (and "no thread" for a mutex owner).
NULL == 0

VARIABLES
    \* ---- pipeline server ----
    shutdown_flag,   \* volatile int shutdown_flag
    next_job_id,     \* static int next_job_id
    queue,           \* queue[q][i]: BlockingQueue.queue, slot i of stage queue q
    head,            \* BlockingQueue.head
    tail,            \* BlockingQueue.tail
    count,           \* BlockingQueue.count
    mutex,           \* BlockingQueue.mutex: owner thread, NULL when free
    not_empty,       \* threads blocked in pthread_cond_wait(&q->not_empty)
    not_full,        \* threads blocked in pthread_cond_wait(&q->not_full)
    pc,              \* position of each stage worker / client handler thread
    job,             \* the local Job* of each thread
    jobs,            \* the heap: the Job structs by job id
    apc,             \* position of main (the acceptor)
    nconn,           \* connections accepted so far
    hpc,             \* position of signal_handler
    \* history of the pipeline (not program state)
    fifo,            \* per queue, the jobs enqueued and not yet dequeued, oldest first
    \* ---- leader/follower server ----
    lf_shutdown_flag, \* static volatile int shutdown_flag
    current_leader,  \* static int current_leader
    leader_mutex,    \* owner of leader_mutex, -1 when free
    leader_cond,     \* workers blocked in pthread_cond_wait(&leader_cond)
    lpc,             \* position of each pool worker
    lhpc,            \* position of signal_handler
    lg,              \* Graph* g of each worker's request in progress, NULL if none
    lheap,           \* the Graph objects of the pool: state and creating worker
    accepted,        \* history: the connections accepted so far, modulo the pool size
    \* ---- job ids of the pipeline server, step by step ----
    job_id_mutex,    \* owner of job_id_mutex, NULL when free
    job_id,          \* job->job_id of each client handler's job, 0 before it is set
    lock_order,      \* history: the handlers in the order they took job_id_mutex
    \* ---- weighted graph module ----
    g_n,             \* Graph.n: the number of vertices of the graph
    adj,             \* Graph.adj: per vertex its list of EdgeNode {to, weight}, head first
    last,            \* the last call on the graph: its name, what it returned, whether
                     \* its graph was NULL and whether an allocation of its failed
    \* ---- leader/follower server: the request of one connection ----
    rpc,             \* position of the worker in process_client and its callees
    req,             \* what recv returned and the ints of the request's header
    ri,              \* int i of the edge loop
    resp,            \* the response sent to the client
    client_fd,       \* the connection's socket: the send and close calls on it
    \* ---- unweighted graph module (part1) ----
    p1_adj,          \* Graph.adj: per vertex its list of EdgeNode {to}, head first
    p1_last,         \* the last graph_add_edge: its arguments, what it returned
                     \* and the nodes it allocated and neither linked nor freed
    \* ---- leader/follower server: the request counter ----
    total_requests,  \* static int total_requests
    cpc,             \* position of each pool worker, main's in cpc[THREAD_POOL_SIZE]
    loaded,          \* per worker, the value it read of total_requests
    routed,          \* history: the requests routed to a handler so far
    \* ---- pipeline server, a call of queue_push or queue_pop at a time ----
    stage_queue,     \* stage1_queue .. stage4_queue: the jobs queued, oldest first
    stage_job,       \* the local Job* of each stage worker, 0 when it holds none
    handlers,        \* the client handlers that hold a parsed job not yet pushed
    entered,         \* the jobs pushed onto stage1_queue so far: a job is numbered
                     \* by its place in that order
    answered         \* the jobs whose response stage 4 has sent

pipeVars == <<shutdown_flag, next_job_id, queue, head, tail, count, mutex,
              not_empty, not_full, pc, job, jobs, apc, nconn, hpc,
              fifo>>
lfVars == <<lf_shutdown_flag, current_leader, leader_mutex, leader_cond, lpc, lhpc,
            lg, lheap, accepted>>
idVars == <<job_id_mutex, job_id, lock_order>>
graphVars == <<g_n, adj, last>>
reqVars == <<rpc, req, ri, resp, client_fd>>
p1Vars == <<p1_adj, p1_last>>
cntVars == <<total_requests, cpc, loaded, routed>>
flowVars == <<stage_queue, stage_job, handlers, entered, answered>>
vars == <<pipeVars, lfVars, idVars, graphVars, reqVars, p1Vars, cntVars, flowVars>>

\* What the pipeline's actions, and the pool's, leave alone.
notPipe == <<lfVars, idVars, graphVars, reqVars, p1Vars, flowVars, cntVars>>
notPool == <<pipeVars, idVars, graphVars, reqVars, p1Vars, flowVars, cntVars>>
notGraph == <<pipeVars, lfVars, idVars, reqVars, p1Vars, flowVars, cntVars>>
notRequest == <<pipeVars, lfVars, idVars, p1Vars, flowVars, cntVars>>

(***************************************************************************)
(*                         PIPELINE SERVER                                 *)
(***************************************************************************)

Stages == 1..NUM_STAGES                       \* stage worker k serves queue k
Queues == 1..NUM_STAGES
\* The handle_client_request thread of the c-th accepted connection.
Handler(c) == NUM_STAGES + c
Parsers == {Handler(c) : c \in 1..MaxJobs}
Threads == Stages \cup Parsers
JobIds == 1..MaxJobs
Slots == 0..(MAX_QUEUE - 1)

\* Position of signal_handler once its broadcasts are done.
HandlerDone == 2

\* The queue a stage worker pops from: stageK_queue for worker K.
PopQ(t) == t

\* A wiring fault: stage 2 hands its jobs to stage 4, past stage 3.
PushQSkip(t) == IF t \in Stages THEN (IF t = 2 THEN 4 ELSE t + 1) ELSE 1

\* The queue a thread pushes to: the next stage's for a worker, stage 1's for
\* a client handler.
PushQ(t) == IF t \in Stages THEN t + 1 ELSE 1

\* A Job as malloc + memset(0) + the assignments of handle_client_request
\* leave it: no result string written, the connection open, the graph alive.
NewJob == [mst_result |-> FALSE, maxflow_result |-> FALSE,
           maxclique_result |-> FALSE, cliquecount_result |-> FALSE,
           final_response |-> <<>>, client_sock |-> "open",
           graph |-> "alive", mem |-> "allocated", visited |-> <<>>,
           failed |-> {}]

\* A job id that names no Job yet.
NoJob == [mst_result |-> FALSE, maxflow_result |-> FALSE,
          maxclique_result |-> FALSE, cliquecount_result |-> FALSE,
          final_response |-> <<>>, client_sock |-> "none",
          graph |-> "none", mem |-> "none", visited |-> <<>>, failed |-> {}]

\* Where a thread goes when queue_push returns: a worker back to the head of
\* its loop, a client handler to its return.
AfterPush(t) == IF t \in Stages THEN "loop" ELSE "exited"

Init ==
    /\ shutdown_flag = 0
    /\ next_job_id = 1
    /\ queue = [q \in Queues |-> [i \in Slots |-> NULL]]
    /\ head = [q \in Queues |-> 0]
    /\ tail = [q \in Queues |-> 0]
    /\ count = [q \in Queues |-> 0]
    /\ mutex = [q \in Queues |-> NULL]
    /\ not_empty = [q \in Queues |-> {}]
    /\ not_full = [q \in Queues |-> {}]
    /\ pc = [t \in Threads |-> IF t \in Stages THEN "loop" ELSE "idle"]
    /\ job = [t \in Threads |-> NULL]
    /\ jobs = [j \in JobIds |-> NoJob]
    /\ apc = "accept"
    /\ nconn = 0
    /\ hpc = 0
    /\ fifo = [q \in Queues |-> <<>>]
    /\ lf_shutdown_flag = 0
    /\ current_leader = 0
    /\ leader_mutex = -1
    /\ leader_cond = {}
    /\ lpc = [w \in 0..(THREAD_POOL_SIZE - 1) |-> "loop"]
    /\ lhpc = 0
    /\ lg = [w \in 0..(THREAD_POOL_SIZE - 1) |-> NULL]
    /\ lheap = [a \in 1..THREAD_POOL_SIZE |-> [state |-> "free", creator |-> -1]]
    /\ accepted = 0
    /\ job_id_mutex = NULL
    /\ job_id = [t \in Parsers |-> 0]
    /\ lock_order = <<>>
    /\ g_n = GraphN
    /\ adj = [u \in 0..(GraphN - 1) |-> <<>>]
    /\ last = [op |-> "graph_create", ret |-> 0, null |-> FALSE, nomem |-> FALSE,
               out |-> <<>>]
    /\ rpc = "recv"
    /\ req = [bytes |-> 0, size |-> 0, algorithm_id |-> 0, n |-> 0, num_edges |-> 0]
    /\ ri = 0
    /\ resp = [sent |-> FALSE, status |-> 0, length |-> 0, body |-> ""]
    /\ client_fd = [sent |-> 0, closed |-> 0]
    /\ p1_adj = [u \in 0..(GraphN - 1) |-> <<>>]
    /\ p1_last = [op |-> "graph_create", u |-> 0, v |-> 0, ret |-> 0, lost |-> 0]
    /\ total_requests = 0
    /\ cpc = [w \in 0..THREAD_POOL_SIZE |->
                  IF w = THREAD_POOL_SIZE THEN "pthread_join" ELSE "accept"]
    /\ loaded = [w \in 0..(THREAD_POOL_SIZE - 1) |-> 0]
    /\ routed = 0
    /\ stage_queue = [q \in Queues |-> <<>>]
    /\ stage_job = [t \in Stages |-> 0]
    /\ handlers = 0
    /\ entered = 0
    /\ answered = {}

\* A ring fault: the index does not move.
AdvanceStuck(i) == i

\* The ring step of head and tail: (i + 1) % MAX_QUEUE
Advance(i) == (i + 1) % MAX_QUEUE

(* ---- queue_pop and the head of a stage worker's loop ---- *)

\* while (!shutdown_flag) at the head of every stage worker
WorkerMayRun == shutdown_flag = 0

\* while (q->count == 0 && !shutdown_flag)
PopMustWait(q) == count[q] = 0 /\ shutdown_flag = 0

\* if (shutdown_flag) after the wait loop of queue_pop
PopMustReturn == shutdown_flag # 0

\* An ordering fault: queue_pop takes the newest job, at tail - 1.
PopSlotNewest(q) == (tail[q] + MAX_QUEUE - 1) % MAX_QUEUE

\* The slot queue_pop reads: q->queue[q->head]
PopSlot(q) == head[q]

\* The loop test of the worker, pthread_mutex_lock, the test of the wait loop
\* and the shutdown test, as one block with one read of shutdown_flag: the
\* flag is only ever set, so a later read that finds it set has the effect
\* the earlier one would have had (queue_pop returns NULL, the worker's
\* `continue` leaves the loop).  A woken waiter re-enters here: it re-locks
\* and re-tests.  The block ends holding the mutex either about to call
\* pthread_cond_wait or about to dequeue.
PopLock(t) ==
    LET q == PopQ(t) IN
    /\ t \in Stages /\ pc[t] = "loop"
    /\ IF ~WorkerMayRun
         THEN /\ pc' = [pc EXCEPT ![t] = "done"]
              /\ UNCHANGED mutex
         ELSE /\ mutex[q] = NULL
              /\ IF PopMustWait(q)
                   THEN /\ pc' = [pc EXCEPT ![t] = "pop_wait"]
                        /\ mutex' = [mutex EXCEPT ![q] = t]
                   ELSE IF PopMustReturn
                   THEN /\ pc' = [pc EXCEPT ![t] = "loop"]
                        /\ UNCHANGED mutex
                   ELSE /\ pc' = [pc EXCEPT ![t] = "pop_deq"]
                        /\ mutex' = [mutex EXCEPT ![q] = t]
    /\ UNCHANGED <<notPipe, shutdown_flag, next_job_id, queue, head, tail, count,
                   not_empty, not_full, job, jobs, apc, nconn, hpc,
                   fifo>>

\* pthread_cond_wait(&q->not_empty, &q->mutex): release the mutex and block.
PopWait(t) ==
    LET q == PopQ(t) IN
    /\ t \in Stages /\ pc[t] = "pop_wait"
    /\ mutex' = [mutex EXCEPT ![q] = NULL]
    /\ not_empty' = [not_empty EXCEPT ![q] = @ \cup {t}]
    /\ pc' = [pc EXCEPT ![t] = "pop_blocked"]
    /\ UNCHANGED <<notPipe, shutdown_flag, next_job_id, queue, head, tail, count,
                   not_full, job, jobs, apc, nconn, hpc, fifo>>

\* job = q->queue[q->head]; head = (head+1) % MAX_QUEUE; count--;
\* pthread_cond_signal(&q->not_full); unlock; return job.
PopDeq(t) ==
    LET q == PopQ(t)
        j == queue[q][PopSlot(q)] IN
    /\ t \in Stages /\ pc[t] = "pop_deq"
    /\ job' = [job EXCEPT ![t] = j]
    /\ head' = [head EXCEPT ![q] = Advance(head[q])]
    /\ count' = [count EXCEPT ![q] = count[q] - 1]
    /\ fifo' = [fifo EXCEPT ![q] = IF @ = <<>> THEN @ ELSE Tail(@)]
    /\ mutex' = [mutex EXCEPT ![q] = NULL]
    /\ IF not_full[q] = {}
         THEN /\ pc' = [pc EXCEPT ![t] = "work"]
              /\ UNCHANGED not_full
         ELSE \E w \in not_full[q] :
                /\ not_full' = [not_full EXCEPT ![q] = @ \ {w}]
                /\ pc' = [pc EXCEPT ![t] = "work", ![w] = "push_lock"]
    /\ UNCHANGED <<notPipe, shutdown_flag, next_job_id, queue, tail, not_empty, jobs,
                   apc, nconn, hpc>>

(* ---- queue_push ---- *)

\* A capacity fault: queue_push never waits for room.
PushNeverWaits(q) == FALSE

\* while (q->count == MAX_QUEUE && !shutdown_flag)
PushMustWait(q) == count[q] = MAX_QUEUE /\ shutdown_flag = 0

\* A shutdown fault: queue_push does not test the flag before it enqueues.
PushNeverReturns == FALSE

\* if (shutdown_flag) after the wait loop of queue_push
PushMustReturn == shutdown_flag # 0

\* The slot queue_push writes: q->queue[q->tail]
PushSlot(q) == tail[q]

\* pthread_mutex_lock, the test of the wait loop and the shutdown test, as
\* one block with one read of shutdown_flag.  When the queue is full the
\* block ends in pthread_cond_wait(&q->not_full, &q->mutex), mutex released
\* (not_full is only ever signalled by a thread that holds the mutex, so
\* nothing can come between the test and the wait).  On shutdown queue_push
\* returns: the job is neither enqueued nor released and the caller drops its
\* pointer.  Otherwise the block ends holding the mutex, about to enqueue.
TryPush(t) ==
    LET q == PushQ(t) IN
    /\ mutex[q] = NULL
    /\ IF PushMustWait(q)
         THEN /\ pc' = [pc EXCEPT ![t] = "push_blocked"]
              /\ not_full' = [not_full EXCEPT ![q] = @ \cup {t}]
              /\ UNCHANGED <<job, mutex>>
         ELSE IF PushMustReturn
         THEN /\ pc' = [pc EXCEPT ![t] = AfterPush(t)]
              /\ job' = [job EXCEPT ![t] = NULL]
              /\ UNCHANGED <<mutex, not_full>>
         ELSE /\ pc' = [pc EXCEPT ![t] = "push_enq"]
              /\ mutex' = [mutex EXCEPT ![q] = t]
              /\ UNCHANGED <<job, not_full>>

\* A woken pusher, or a client handler entering queue_push.
PushLock(t) ==
    /\ pc[t] = "push_lock"
    /\ TryPush(t)
    /\ UNCHANGED <<notPipe, shutdown_flag, next_job_id, queue, head, tail, count,
                   not_empty, jobs, apc, nconn, hpc, fifo>>

\* q->queue[q->tail] = job; tail = (tail+1) % MAX_QUEUE; count++;
\* pthread_cond_signal(&q->not_empty); unlock; return.
PushEnq(t) ==
    LET q == PushQ(t) IN
    /\ pc[t] = "push_enq"
    /\ queue' = [queue EXCEPT ![q][PushSlot(q)] = job[t]]
    /\ tail' = [tail EXCEPT ![q] = Advance(tail[q])]
    /\ count' = [count EXCEPT ![q] = count[q] + 1]
    /\ fifo' = [fifo EXCEPT ![q] = Append(@, job[t])]
    /\ mutex' = [mutex EXCEPT ![q] = NULL]
    /\ job' = [job EXCEPT ![t] = NULL]
    /\ IF not_empty[q] = {}
         THEN /\ pc' = [pc EXCEPT ![t] = AfterPush(t)]
              /\ UNCHANGED not_empty
         ELSE \E w \in not_empty[q] :
                /\ not_empty' = [not_empty EXCEPT ![q] = @ \ {w}]
                /\ pc' = [pc EXCEPT ![t] = AfterPush(t), ![w] = "loop"]
    /\ UNCHANGED <<notPipe, shutdown_flag, next_job_id, head, not_full, jobs,
                   apc, nconn, hpc>>

\* pthread_cond_wait may return without a signal (POSIX spurious wakeup).
SpuriousWake(t) ==
    /\ IF pc[t] = "pop_blocked"
         THEN /\ not_empty' = [not_empty EXCEPT ![PopQ(t)] = @ \ {t}]
              /\ pc' = [pc EXCEPT ![t] = "loop"]
              /\ UNCHANGED not_full
         ELSE /\ pc[t] = "push_blocked"
              /\ not_full' = [not_full EXCEPT ![PushQ(t)] = @ \ {t}]
              /\ pc' = [pc EXCEPT ![t] = "push_lock"]
              /\ UNCHANGED not_empty
    /\ UNCHANGED <<notPipe, shutdown_flag, next_job_id, queue, head, tail, count, mutex,
                   job, jobs, apc, nconn, hpc, fifo>>

(* ---- stage workers ---- *)

\* A stage that writes its result only when its kernel succeeds.
StageResultOnSuccess(k, J, success) ==
    LET V == [J EXCEPT !.visited = Append(@, k),
                       !.failed = IF success THEN @ ELSE @ \cup {k}] IN
    IF ~success THEN V
    ELSE CASE k = 1 -> [V EXCEPT !.mst_result = TRUE]
           [] k = 2 -> [V EXCEPT !.maxflow_result = TRUE]
           [] k = 3 -> [V EXCEPT !.maxclique_result = TRUE]
           [] OTHER -> [V EXCEPT !.cliquecount_result = TRUE]

\* The result string stage k writes into the job (snprintf on either
\* branch); failed, not program state: the stages whose kernel did not succeed.
StageResult(k, J, success) ==
    LET V == [J EXCEPT !.visited = Append(@, k),
                       !.failed = IF success THEN @ ELSE @ \cup {k}] IN
    CASE k = 1 -> [V EXCEPT !.mst_result = TRUE]
      [] k = 2 -> [V EXCEPT !.maxflow_result = TRUE]
      [] k = 3 -> [V EXCEPT !.maxclique_result = TRUE]
      [] OTHER -> [V EXCEPT !.cliquecount_result = TRUE]

\* What the kernel of stage k returns on the graph of the j-th job.  The
\* first client sends a graph of one vertex, on which
\* graph_max_flow_default returns 0; the second one of three vertices and a
\* single edge, which graph_mst_prim finds not connected; the others send
\* triangles, on which every kernel succeeds.
KernelSucceeds(k, j) == ~((j = 1 /\ k = 2) \/ (j = 2 /\ k = 1))

\* Stage 4 after its result: the final response is composed from the four
\* result strings as they are, sent, the socket closed, the graph destroyed
\* and the job freed.  Freeing what is not allocated corrupts the heap.
Teardown(J) ==
    [J EXCEPT !.final_response = <<J.mst_result, J.maxflow_result,
                                   J.maxclique_result, J.cliquecount_result>>,
              !.client_sock = IF @ = "open" THEN "closed" ELSE "bad_close",
              !.graph = IF @ = "alive" THEN "destroyed" ELSE "double_destroy",
              !.mem = IF @ = "allocated" THEN "freed" ELSE "double_free"]

\* Stages 1..3: run the kernel, write the result, enter queue_push (the
\* kernel works on the job this worker alone holds, so it forms one block
\* with the lock that follows).  Stage 4: run the kernel, write the result,
\* respond and tear down.  A NULL job would be dereferenced: the thread dies.
Work(t) ==
    /\ t \in Stages /\ pc[t] = "work"
    /\ IF job[t] = NULL
         THEN /\ pc' = [pc EXCEPT ![t] = "segv"]
              /\ UNCHANGED <<job, jobs, mutex, not_full>>
         ELSE IF t < NUM_STAGES
         THEN /\ jobs' = [jobs EXCEPT ![job[t]] =
                                  StageResult(t, @, KernelSucceeds(t, job[t]))]
              /\ TryPush(t)
         ELSE /\ jobs' = [jobs EXCEPT ![job[t]] =
                                  Teardown(StageResult(t, @, KernelSucceeds(t, job[t])))]
              /\ pc' = [pc EXCEPT ![t] = "loop"]
              /\ job' = [job EXCEPT ![t] = NULL]
              /\ UNCHANGED <<mutex, not_full>>
    /\ UNCHANGED <<notPipe, shutdown_flag, next_job_id, queue, head, tail, count,
                   not_empty, apc, nconn, hpc, fifo>>

(* ---- main: the accept loop ---- *)

\* main is blocked in accept().  A connection arrives: accept returns, a
\* detached handler thread is created for it, and the loop test
\* while (!shutdown_flag) sends main back into accept or on to its joins.
Accept ==
    /\ apc = "accept"
    /\ nconn < MaxJobs
    /\ nconn' = nconn + 1
    /\ pc' = [pc EXCEPT ![Handler(nconn + 1)] = "recv"]
    /\ apc' = IF shutdown_flag = 0 THEN "accept" ELSE "join"
    /\ UNCHANGED <<notPipe, shutdown_flag, next_job_id, queue, head, tail, count, mutex,
                   not_empty, not_full, job, jobs, hpc, fifo>>

\* pthread_join of the four stage workers, then main returns.
AcceptorJoin ==
    /\ apc = "join"
    /\ \A k \in Stages : pc[k] = "done"
    /\ apc' = "exit"
    /\ UNCHANGED <<notPipe, shutdown_flag, next_job_id, queue, head, tail, count, mutex,
                   not_empty, not_full, pc, job, jobs, nconn, hpc,
                   fifo>>

(* ---- handle_client_request ---- *)

\* The header is short or the vertex count invalid (or graph_create fails):
\* the socket is closed and no job is made.
ParserReject(t) ==
    /\ t \in Parsers /\ pc[t] = "recv"
    /\ pc' = [pc EXCEPT ![t] = "exited"]
    /\ UNCHANGED <<notPipe, shutdown_flag, next_job_id, queue, head, tail, count, mutex,
                   not_empty, not_full, job, jobs, apc, nconn, hpc,
                   fifo>>

\* The graph is built; the job is allocated and takes next_job_id++ under
\* job_id_mutex; queue_push(&stage1_queue, job) follows.
ParserNewJob(t) ==
    /\ t \in Parsers /\ pc[t] = "recv"
    /\ next_job_id \in JobIds
    /\ jobs' = [jobs EXCEPT ![next_job_id] = NewJob]
    /\ job' = [job EXCEPT ![t] = next_job_id]
    /\ next_job_id' = next_job_id + 1
    /\ pc' = [pc EXCEPT ![t] = "push_lock"]
    /\ UNCHANGED <<notPipe, shutdown_flag, queue, head, tail, count, mutex,
                   not_empty, not_full, apc, nconn, hpc, fifo>>

(* ---- signal_handler ---- *)

\* SIGINT / SIGTERM is delivered: shutdown_flag = 1.
SignalArrives ==
    /\ hpc = 0
    /\ shutdown_flag' = 1
    /\ hpc' = 1
    /\ UNCHANGED <<notPipe, next_job_id, queue, head, tail, count, mutex,
                   not_empty, not_full, pc, job, jobs, apc, nconn, fifo>>

\* pthread_cond_broadcast on the not_empty of the four stage queues, with no
\* mutex held.  Each broadcast reaches one thread only, the worker of its
\* stage, so the four are taken as one step.
HandlerBroadcast ==
    LET woken == UNION {not_empty[q] : q \in Queues} IN
    /\ hpc = 1
    /\ pc' = [t \in Threads |-> IF t \in woken THEN "loop" ELSE pc[t]]
    /\ not_empty' = [q \in Queues |-> {}]
    /\ hpc' = HandlerDone
    /\ UNCHANGED <<notPipe, shutdown_flag, next_job_id, queue, head, tail, count, mutex,
                   not_full, job, jobs, apc, nconn, fifo>>

(* ---- the pipeline as a whole ---- *)

ThreadStep(t) ==
    \/ PopLock(t) \/ PopWait(t) \/ PopDeq(t)
    \/ Work(t)
    \/ PushLock(t) \/ PushEnq(t)
    \/ ParserReject(t) \/ ParserNewJob(t)

Next ==
    \/ \E t \in Threads : ThreadStep(t)
    \/ \E t \in Threads : SpuriousWake(t)
    \/ Accept \/ AcceptorJoin
    \/ SignalArrives \/ HandlerBroadcast

Spec == Init /\ [][Next]_vars

\* The pipeline with no signal delivered and fair scheduling: a thread that
\* can go on taking its next step is eventually scheduled to take it, and a
\* wait on a condition variable returns when the condition is signalled.
\* Nothing is assumed of the clients: a connection may never come.
LiveNext ==
    \/ \E t \in Threads : ThreadStep(t)
    \/ Accept

LiveSpec ==
    Init /\ [][LiveNext]_vars /\ \A t \in Threads : WF_vars(ThreadStep(t))

(***************************************************************************)
(*        JOB IDS: handle_client_request up to its job id, step by step    *)
(***************************************************************************)

\* What the steps on the job id leave alone of the pipeline's state.
notJobId == <<lfVars, graphVars, reqVars, p1Vars, flowVars, cntVars, shutdown_flag, queue, head, tail, count, mutex,
              not_empty, not_full, jobs, apc, nconn, hpc, fifo>>

\* A locking fault: job_id_mutex excludes nobody.
JobIdMutexOpen == TRUE

\* pthread_mutex_lock(&job_id_mutex) goes through when nobody holds it.
JobIdMutexFree == job_id_mutex = NULL

\* A counting fault: the counter is left two further.
NextIdSkips(n) == n + 2

\* next_job_id++ : the value the counter is left with
NextId(n) == n + 1

\* The request is well formed, the graph and the Job are allocated:
\* pthread_mutex_lock(&job_id_mutex).
ParserLockId(t) ==
    /\ t \in Parsers
    /\ pc[t] = "recv"
    /\ JobIdMutexFree
    /\ job_id_mutex' = t
    /\ lock_order' = Append(lock_order, t)
    /\ pc' = [pc EXCEPT ![t] = "id_locked"]
    /\ UNCHANGED <<notJobId, next_job_id, job, job_id>>

\* job->job_id = next_job_id++ : the counter is read into job->job_id ...
ParserReadId(t) ==
    /\ t \in Parsers
    /\ pc[t] = "id_locked"
    /\ job_id' = [job_id EXCEPT ![t] = next_job_id]
    /\ pc' = [pc EXCEPT ![t] = "id_read"]
    /\ UNCHANGED <<notJobId, next_job_id, job, job_id_mutex, lock_order>>

\* ... and written back incremented.
ParserWriteId(t) ==
    /\ t \in Parsers
    /\ pc[t] = "id_read"
    /\ next_job_id' = NextId(job_id[t])
    /\ pc' = [pc EXCEPT ![t] = "id_written"]
    /\ UNCHANGED <<notJobId, job, job_id_mutex, job_id, lock_order>>

\* pthread_mutex_unlock(&job_id_mutex); the job then enters the pipeline.
ParserUnlockId(t) ==
    /\ t \in Parsers
    /\ pc[t] = "id_written"
    /\ job_id_mutex' = NULL
    /\ pc' = [pc EXCEPT ![t] = "id_done"]
    /\ UNCHANGED <<notJobId, next_job_id, job, job_id, lock_order>>

IdStep(t) ==
    \/ ParserReject(t) \/ ParserLockId(t) \/ ParserReadId(t)
    \/ ParserWriteId(t) \/ ParserUnlockId(t)

IdNext ==
    \/ Accept
    \/ \E t \in Parsers : IdStep(t)

IdSpec == Init /\ [][IdNext]_vars

\* The handlers whose job has its id, and those that have also put the
\* counter back.
HasId == {t \in Parsers : job_id[t] # 0}
BumpedId == {t \in Parsers : pc[t] \in {"id_written", "id_done"}}

\* C12. Job id uniqueness: no two jobs have the same job_id; the ids handed
\* out are exactly 1..k for the k jobs that have one, each new id greater
\* than every id handed out before it; the counter stands one past the ids
\* of the handlers that have written it back, and a connection rejected
\* before its job is created has no id and has not moved the counter.
C12_JobIdsUnique ==
    /\ [](/\ \A a, b \in HasId : a # b => job_id[a] # job_id[b]
          /\ {job_id[t] : t \in HasId} = 1..Cardinality(HasId)
          /\ next_job_id = 1 + Cardinality(BumpedId)
          /\ \A t \in Parsers : pc[t] = "exited" => job_id[t] = 0)
    /\ [][\A t \in Parsers :
            job_id'[t] # job_id[t]
               => /\ job_id[t] = 0
                  /\ \A o \in HasId : job_id[o] < job_id'[t]]_vars

\* C12 witness: one connection was rejected and the two others have their
\* ids, the counter standing at 3.
C12_Witness ==
    /\ \E t \in Parsers : pc[t] = "exited"
    /\ Cardinality({t \in Parsers : pc[t] = "id_done"}) = 2
    /\ next_job_id = 3

\* C13. Job ids follow accept order: of two connections that both have
\* their job's id, the one accepted first has the smaller id.
C13_IdsFollowAccept ==
    \A a, b \in 1..MaxJobs :
        (a < b /\ job_id[Handler(a)] # 0 /\ job_id[Handler(b)] # 0)
            => job_id[Handler(a)] < job_id[Handler(b)]

\* C13 amended. Job ids follow the order in which the handler threads take
\* job_id_mutex: the i-th handler to take it gets id i.
C13_IdsFollowLockOrder ==
    \A i \in 1..Len(lock_order) :
        /\ job_id[lock_order[i]] \in {0, i}
        /\ job_id[lock_order[i]] = 0
              => (i = Len(lock_order) /\ pc[lock_order[i]] = "id_locked")

\* C13 witness: the connection accepted second has id 1, the first id 2.
C13_Witness ==
    /\ job_id[Handler(1)] = 2
    /\ job_id[Handler(2)] = 1

\* A step of the program itself: of a thread that is not blocked, or of the
\* running signal handler.  What is left out is the environment: a
\* connection or a signal arriving, a spurious wakeup.
ProgramStep ==
    \/ \E t \in Threads : ThreadStep(t)
    \/ AcceptorJoin
    \/ HandlerBroadcast

(***************************************************************************)
(*                      PROPERTIES OF THE PIPELINE                         *)
(***************************************************************************)

\* The ring positions that hold the jobs of queue q: count slots from head.
LiveSlots(q) == {(head[q] + i) % MAX_QUEUE : i \in 0..(count[q] - 1)}

\* How many owners refer to job j: the local Job* of a thread, or a live slot.
Refs(j) ==
    Cardinality({t \in Threads : job[t] = j})
  + Cardinality({<<q, i>> \in Queues \X Slots : i \in LiveSlots(q) /\ queue[q][i] = j})

\* The stages in pipeline order, and the first n of them.
StageOrder == [k \in Stages |-> k]
FirstStages(n) == SubSeq(StageOrder, 1, n)

\* C1. Pipeline queue FIFO: every queue_pop returns the job that was
\* enqueued first among the jobs of its queue not yet dequeued (so the jobs
\* leave each queue in exactly the order they entered it), whatever the
\* interleaving of the pushers with the popper and wherever head and tail
\* stand in the ring.
C1_QueueFifo ==
    [][\A t \in Stages :
         (pc[t] = "pop_deq" /\ pc'[t] = "work")
            => /\ fifo[PopQ(t)] # <<>>
               /\ job'[t] = Head(fifo[PopQ(t)])]_vars

\* C1 witness: stage 1 has just dequeued from the last slot of the ring while
\* the job left in slot 0 (enqueued after it, past the wrap-around) has the
\* smaller id: concurrent handlers pushed out of id order.
C1_Witness ==
    /\ pc[1] = "work" /\ job[1] # NULL
    /\ head[1] = 0 /\ count[1] >= 1 /\ nconn > MAX_QUEUE
    /\ queue[1][0] # NULL /\ queue[1][0] < job[1]

\* C2. Pipeline queue bound: 0 <= count <= MAX_QUEUE for every stage queue,
\* head and tail stay inside the ring, and tail is count slots after head
\* (no enqueue into a full queue, no dequeue from an empty one).
C2_QueueBound ==
    \A q \in Queues :
        /\ count[q] \in 0..MAX_QUEUE
        /\ head[q] \in Slots /\ tail[q] \in Slots
        /\ tail[q] = (head[q] + count[q]) % MAX_QUEUE
        /\ Len(fifo[q]) = count[q]

\* C2 witness: a full queue with a pusher blocked on it, while the worker of
\* another stage is blocked on its empty queue.
C2_Witness ==
    \E q \in Queues :
        /\ count[q] = MAX_QUEUE /\ not_full[q] # {}
        /\ \E r \in Queues : count[r] = 0 /\ not_empty[r] # {}

\* C3. Pipeline stage order: the stages that have processed a job are always
\* 1, 2, ..., n in this order for some n (none skipped, none twice), its
\* result strings are exactly those of these stages, and a final response is
\* composed only after all four stages, from four written result strings.
C3_StageOrder ==
    \A j \in JobIds :
        LET J == jobs[j] n == Len(J.visited) IN
        /\ n <= NUM_STAGES
        /\ J.visited = FirstStages(n)
        /\ J.mst_result = (n >= 1) /\ J.maxflow_result = (n >= 2)
        /\ J.maxclique_result = (n >= 3) /\ J.cliquecount_result = (n >= 4)
        /\ J.final_response # <<>> =>
              /\ n = NUM_STAGES
              /\ J.final_response = <<TRUE, TRUE, TRUE, TRUE>>

\* C3 witness: a job whose final response has been composed while another
\* job is still between stages.
C3_Witness ==
    \E j, k \in JobIds :
        /\ jobs[j].final_response # <<>>
        /\ Len(jobs[k].visited) \in 1..(NUM_STAGES - 1)

\* C4. Pipeline job ownership: a job is referred to by at most one owner (a
\* thread's local pointer or a live queue slot); it is torn down at most
\* once, connection closed, graph destroyed and memory freed together, and
\* only after stage 4 processed it; once freed, nothing refers to it.
C4_JobOwnership ==
    \A j \in JobIds :
        LET J == jobs[j] IN
        /\ Refs(j) <= 1
        /\ J.mem \in {"none", "allocated", "freed"}
        /\ J.mem = "none" => Refs(j) = 0
        /\ J.mem = "freed" =>
              /\ Refs(j) = 0
              /\ J.client_sock = "closed" /\ J.graph = "destroyed"
              /\ J.visited = FirstStages(NUM_STAGES)
        /\ J.mem = "allocated" => J.client_sock = "open" /\ J.graph = "alive"

\* C4 witness: one job freed by stage 4, one held in a queue slot, one held
\* by a thread.
C4_Witness ==
    \E i, j, k \in JobIds :
        /\ jobs[i].mem = "freed"
        /\ \E q \in Queues : \E s \in LiveSlots(q) : queue[q][s] = j
        /\ \E t \in Threads : job[t] = k

\* C7. Pipeline shutdown liveness: after signal_handler has set the flag and
\* done its broadcasts every stage worker terminates, so the program cannot
\* come to rest (no thread able to take a step) with a worker still inside
\* its loop.
C7_WorkersTerminate ==
    (hpc = HandlerDone /\ ~ ENABLED ProgramStep)
        => \A k \in Stages : pc[k] = "done"

\* C8. Pipeline shutdown wakes pushers: after shutdown has been signalled a
\* thread blocked in queue_push on a full queue is woken and returns, so the
\* program cannot come to rest with a thread still blocked in queue_push.
C8_PusherWoken ==
    (hpc = HandlerDone /\ ~ ENABLED ProgramStep)
        => \A t \in Threads : pc[t] # "push_blocked"

\* C10 as stated. No forwarding after shutdown: once the shutdown flag is
\* set, no step changes the buffer, head, tail or count of any queue.
C10_QueuesFrozen ==
    [][shutdown_flag = 1 => UNCHANGED <<queue, head, tail, count>>]_vars

\* C10 amended. Once the shutdown flag is set, no queue_push and no queue_pop
\* passes its shutdown test any more; a queue changes only by an operation
\* that had already passed the test when the flag was set completing its
\* enqueue or dequeue.
C10_NoNewOperation ==
    [][shutdown_flag = 1 =>
         /\ \A t \in Threads :
               pc'[t] \in {"push_enq", "pop_deq"} => pc'[t] = pc[t]
         /\ <<queue, head, tail, count>>' # <<queue, head, tail, count>> =>
               \E t \in Threads : /\ pc[t] \in {"push_enq", "pop_deq"}
                                  /\ pc'[t] # pc[t]]_vars

\* C10 witness: the flag is set while an operation stands between its
\* shutdown test and its enqueue or dequeue.
C10_Witness ==
    /\ shutdown_flag = 1
    /\ \E t \in Threads : pc[t] \in {"push_enq", "pop_deq"}

\* C11. Pipeline backpressure: while Q1 is full and a client handler is
\* blocked in queue_push on it, the acceptor is blocked too: it is not in
\* its accept loop, ready to take the next connection.
C11_AcceptorStalls ==
    (count[1] = MAX_QUEUE /\ \E t \in Parsers : pc[t] = "push_blocked")
        => apc # "accept"

(***************************************************************************)
(*                      LEADER/FOLLOWER SERVER                             *)
(***************************************************************************)

Workers == 0..(THREAD_POOL_SIZE - 1)

\* Position of the pool's signal_handler once its broadcast is done.
LFHandlerDone == 2

\* A promotion that passes over a worker.
NextLeaderSkips(c) == (c + 2) % THREAD_POOL_SIZE

\* current_leader = (current_leader + 1) % THREAD_POOL_SIZE
NextLeader(c) == (c + 1) % THREAD_POOL_SIZE

\* An exclusion fault: a worker does not wait for its turn.
LFNeverWaits(w) == FALSE

\* while (current_leader != thread_id && !shutdown_flag)
MustWaitForLeader(w) == current_leader # w /\ lf_shutdown_flag = 0

\* while (!shutdown_flag) at the head of worker_thread, and the
\* if (shutdown_flag) break after the wait loop
LFMayRun == lf_shutdown_flag = 0

\* The loop test, pthread_mutex_lock, the test of the wait loop and the
\* shutdown test, as one block with one read of shutdown_flag (the flag is
\* only ever set: a later read that finds it set ends the loop as the
\* earlier one would have).  A woken waiter re-enters here.  The block ends
\* holding the mutex about to call pthread_cond_wait, or with the mutex
\* released about to call accept as leader.
LFLock(w) ==
    /\ lpc[w] = "loop"
    /\ IF ~LFMayRun
         THEN /\ lpc' = [lpc EXCEPT ![w] = "done"]
              /\ UNCHANGED leader_mutex
         ELSE /\ leader_mutex = -1
              /\ IF MustWaitForLeader(w)
                   THEN /\ lpc' = [lpc EXCEPT ![w] = "wait"]
                        /\ leader_mutex' = w
                   ELSE /\ lpc' = [lpc EXCEPT ![w] = "accept"]
                        /\ UNCHANGED leader_mutex
    /\ UNCHANGED <<notPool, accepted, lg, lheap, lf_shutdown_flag, current_leader, leader_cond, lhpc>>

\* pthread_cond_wait(&leader_cond, &leader_mutex): release the mutex, block.
LFWait(w) ==
    /\ lpc[w] = "wait"
    /\ leader_mutex' = -1
    /\ leader_cond' = leader_cond \cup {w}
    /\ lpc' = [lpc EXCEPT ![w] = "blocked"]
    /\ UNCHANGED <<notPool, accepted, lg, lheap, lf_shutdown_flag, current_leader, lhpc>>

\* pthread_cond_wait may return without a signal.
LFSpuriousWake(w) ==
    /\ lpc[w] = "blocked"
    /\ leader_cond' = leader_cond \ {w}
    /\ lpc' = [lpc EXCEPT ![w] = "loop"]
    /\ UNCHANGED <<notPool, accepted, lg, lheap, lf_shutdown_flag, current_leader, leader_mutex, lhpc>>

\* accept() returns a connection to the worker blocked in it.
LFAcceptOk(w) ==
    /\ lpc[w] = "accept"
    /\ lpc' = [lpc EXCEPT ![w] = "promote"]
    /\ accepted' = (accepted + 1) % THREAD_POOL_SIZE
    /\ UNCHANGED <<notPool, lg, lheap, lf_shutdown_flag, current_leader, leader_mutex,
                   leader_cond, lhpc>>

\* accept() fails (client_fd < 0, for one an interrupted call): nothing is
\* promoted and the worker goes round its loop.
LFAcceptFail(w) ==
    /\ lpc[w] = "accept"
    /\ lpc' = [lpc EXCEPT ![w] = "loop"]
    /\ UNCHANGED <<notPool, accepted, lg, lheap, lf_shutdown_flag, current_leader, leader_mutex,
                   leader_cond, lhpc>>

\* lock; current_leader = next; pthread_cond_broadcast(&leader_cond); unlock;
\* the worker then enters process_client.
LFPromote(w) ==
    /\ lpc[w] = "promote"
    /\ leader_mutex = -1
    /\ current_leader' = NextLeader(current_leader)
    /\ leader_cond' = {}
    /\ lpc' = [v \in Workers |-> IF v = w THEN "process"
                                 ELSE IF v \in leader_cond THEN "loop"
                                 ELSE lpc[v]]
    /\ UNCHANGED <<notPool, accepted, lg, lheap, lf_shutdown_flag, leader_mutex, lhpc>>

\* process_client returns without having had a graph: nothing was received,
\* the request was malformed, or graph_create failed (the connection is
\* closed on every path).
LFProcess(w) ==
    /\ lpc[w] = "process"
    /\ lpc' = [lpc EXCEPT ![w] = "loop"]
    /\ UNCHANGED <<notPool, accepted, lg, lheap, lf_shutdown_flag, current_leader, leader_mutex,
                   leader_cond, lhpc>>

\* SIGINT is delivered: shutdown_flag = 1.
LFSignalArrives ==
    /\ lhpc = 0
    /\ lf_shutdown_flag' = 1
    /\ lhpc' = 1
    /\ UNCHANGED <<notPool, accepted, lg, lheap, current_leader, leader_mutex, leader_cond, lpc>>

\* pthread_cond_broadcast(&leader_cond), with leader_mutex not held.
LFHandlerBroadcast ==
    /\ lhpc = 1
    /\ leader_cond' = {}
    /\ lpc' = [v \in Workers |-> IF v \in leader_cond THEN "loop" ELSE lpc[v]]
    /\ lhpc' = LFHandlerDone
    /\ UNCHANGED <<notPool, accepted, lg, lheap, lf_shutdown_flag, current_leader, leader_mutex>>

\* A graph shared between requests: graph_create hands out any object.
AnyGraph == 1..THREAD_POOL_SIZE

\* The memory graph_create can return: a Graph object not in use, never
\* used or already destroyed.
FreshGraphs == {a \in 1..THREAD_POOL_SIZE : lheap[a].state \in {"free", "destroyed"}}

\* graph_destroy(g), as the allocator sees it.
DestroyGraph(o) ==
    [state |-> IF o.state = "alive" THEN "destroyed" ELSE "double_destroy",
     creator |-> -1]

\* The request is well formed and graph_create(n) succeeds: the worker is in
\* process_weighted_request or process_unweighted_request with its graph.
LFCreateGraph(w) ==
    /\ lpc[w] = "process"
    /\ \E a \in FreshGraphs :
          /\ lg' = [lg EXCEPT ![w] = a]
          /\ lheap' = [lheap EXCEPT ![a] = [state |-> "alive", creator |-> w]]
    /\ lpc' = [lpc EXCEPT ![w] = "execute"]
    /\ UNCHANGED <<notPool, accepted, lf_shutdown_flag, current_leader, leader_mutex,
                   leader_cond, lhpc>>

\* The edges are added, algorithm_factory_execute runs, the response is
\* sent, graph_destroy(g); process_client closes the connection and returns.
LFExecute(w) ==
    /\ lpc[w] = "execute"
    /\ lheap' = [lheap EXCEPT ![lg[w]] = DestroyGraph(lheap[lg[w]])]
    /\ lg' = [lg EXCEPT ![w] = NULL]
    /\ lpc' = [lpc EXCEPT ![w] = "loop"]
    /\ UNCHANGED <<notPool, accepted, lf_shutdown_flag, current_leader, leader_mutex,
                   leader_cond, lhpc>>

LFWorkerStep(w) ==
    \/ LFLock(w) \/ LFWait(w) \/ LFPromote(w) \/ LFProcess(w)
    \/ LFCreateGraph(w) \/ LFExecute(w)

LFNext ==
    \/ \E w \in Workers : LFWorkerStep(w)
    \/ \E w \in Workers : LFAcceptOk(w)
    \/ \E w \in Workers : LFAcceptFail(w)
    \/ \E w \in Workers : LFSpuriousWake(w)
    \/ LFSignalArrives \/ LFHandlerBroadcast

LFSpec == Init /\ [][LFNext]_vars

\* A step of the pool itself; a connection or a signal arriving, a failing
\* accept and a spurious wakeup are the environment's.
LFProgramStep ==
    \/ \E w \in Workers : LFWorkerStep(w)
    \/ LFHandlerBroadcast

(***************************************************************************)
(*                 PROPERTIES OF THE LEADER/FOLLOWER SERVER                *)
(***************************************************************************)

\* C5. Leader/follower accept exclusion: at most one worker is between the
\* release of the mutex as leader and its promotion of the next leader, so
\* at most one is inside accept(), and it is the worker current_leader names.
C5_AcceptExclusion ==
    /\ Cardinality({w \in Workers : lpc[w] \in {"accept", "promote"}}) <= 1
    /\ \A w \in Workers : lpc[w] \in {"accept", "promote"} => current_leader = w
    /\ current_leader \in Workers

\* C5 witness: one worker is inside accept while the three others are still
\* processing the connections they accepted.
C5_Witness ==
    \E w \in Workers :
        /\ lpc[w] = "accept"
        /\ \A v \in Workers \ {w} : lpc[v] = "process"

\* C6. Leader/follower hand-over: when a worker begins processing the
\* connection it accepted, the worker it has just promoted to leader is not
\* itself still busy processing an earlier connection.
C6_PromotedIsFree ==
    [][\A w \in Workers :
         (lpc[w] = "promote" /\ lpc'[w] = "process")
            => lpc'[current_leader'] \notin {"process", "execute"}]_vars

C9_PoolTerminates ==
    (lhpc = LFHandlerDone /\ ~ ENABLED LFProgramStep)
        => \A w \in Workers : lpc[w] = "done"

(***************************************************************************)
(*                      WEIGHTED GRAPH MODULE                              *)
(***************************************************************************)

GraphVertices == 0..(GraphN - 1)

\* The arguments the calls are tried with: a NULL or a real graph, vertex
\* indices in and out of range, weights zero and positive, and whether each of
\* the two mallocs of an add succeeds.
GraphArgs == {"NULL", "g"}
VertexArgs == -1..GraphN
Weights == {0, 1, 2}
Mallocs == {<<TRUE, TRUE>>, <<FALSE, TRUE>>, <<TRUE, FALSE>>}

EdgeNode(to, weight) == [to |-> to, weight |-> weight]

\* in_bounds(g, v)
in_bounds(g, v) == g # "NULL" /\ v >= 0 /\ v < g_n

\* count_neighbor(g, u, v): how many times v appears in u's list
count_neighbor(a, u, v) == Cardinality({i \in 1..Len(a[u]) : a[u][i].to = v})

\* A duplicate check that knows self-loops only.
edge_exists_loops(a, u, v) == u = v /\ count_neighbor(a, u, u) >= 2

\* edge_exists_simple(g, u, v)
edge_exists_simple(a, u, v) ==
    IF u = v THEN count_neighbor(a, u, u) >= 2
             ELSE count_neighbor(a, u, v) >= 1

\* A self-loop stored as one entry.
SelfLoopInsertOnce(a, u, weight) ==
    [a EXCEPT ![u] = <<EdgeNode(u, weight)>> \o @]

\* The self-loop branch: e2 -> e1 -> old head of adj[u]
SelfLoopInsert(a, u, weight) ==
    [a EXCEPT ![u] = <<EdgeNode(u, weight), EdgeNode(u, weight)>> \o @]

\* A regular edge stored with u only.
RegularInsertOneWay(a, u, v, weight) ==
    [a EXCEPT ![u] = <<EdgeNode(v, weight)>> \o @]

\* The regular branch: e1 at the head of adj[u], e2 at the head of adj[v]
RegularInsert(a, u, v, weight) ==
    [a EXCEPT ![u] = <<EdgeNode(v, weight)>> \o @,
              ![v] = <<EdgeNode(u, weight)>> \o @]

\* Link-as-you-allocate: e1 is already in u's list when e2's malloc fails.
HalfInsert(a, u, v, weight, e1) ==
    IF e1 THEN [a EXCEPT ![u] = <<EdgeNode(v, weight)>> \o @] ELSE a

\* if (!e1 || !e2) { free(e1); free(e2); return -2; } : nothing was linked
OnAllocFailure(a, u, v, weight, e1) == a

\* graph_add_weighted_edge(g, u, v, weight), with the outcome m of its two
\* mallocs: what it returns and the adjacency lists it leaves.
graph_add_weighted_edge(g, a, u, v, weight, m) ==
    IF ~in_bounds(g, u) \/ ~in_bounds(g, v) THEN [ret |-> -1, adj |-> a]
    ELSE IF edge_exists_simple(a, u, v) THEN [ret |-> -3, adj |-> a]
    ELSE IF ~m[1] \/ ~m[2]
        THEN [ret |-> -2, adj |-> OnAllocFailure(a, u, v, weight, m[1])]
    ELSE IF u = v THEN [ret |-> 0, adj |-> SelfLoopInsert(a, u, weight)]
    ELSE [ret |-> 0, adj |-> RegularInsert(a, u, v, weight)]

\* graph_add_edge(g, u, v)
graph_add_edge(g, a, u, v, m) == graph_add_weighted_edge(g, a, u, v, 1, m)

\* graph_get_edge_weight(g, u, v): the weight of the first entry for v
graph_get_edge_weight(g, a, u, v) ==
    IF ~in_bounds(g, u) \/ ~in_bounds(g, v) THEN 0
    ELSE LET hits == {i \in 1..Len(a[u]) : a[u][i].to = v}
         IN  IF hits = {} THEN 0
             ELSE a[u][CHOOSE i \in hits : \A j \in hits : i <= j].weight

\* The undirected edges of the lists: two entries each.
NumEdges(a) ==
    Cardinality({<<u, i>> \in GraphVertices \X (1..(2 * MaxEdges + 2)) :
                    i <= Len(a[u])}) \div 2

\* The calls that differ in what they do: with a NULL graph the indices
\* are not looked at, v is not looked at when u is out of bounds, and the
\* weight and the mallocs matter only to a call that reaches them.
IndexArgs(g) == IF g = "NULL" THEN {0} ELSE VertexArgs
SecondIndexArgs(g, u) == IF in_bounds(g, u) THEN VertexArgs ELSE {0}
ReachesMalloc(g, u, v) ==
    in_bounds(g, u) /\ in_bounds(g, v) /\ ~edge_exists_simple(adj, u, v)
WeightArgs(g, u, v) == IF ReachesMalloc(g, u, v) THEN Weights ELSE {1}
MallocArgs(g, u, v) == IF ReachesMalloc(g, u, v) THEN Mallocs ELSE {<<TRUE, TRUE>>}

\* A call of graph_add_weighted_edge; the graph stays within MaxEdges edges.
AddWeightedEdge ==
    \E g \in GraphArgs : \E u \in IndexArgs(g) : \E v \in SecondIndexArgs(g, u) :
    \E weight \in WeightArgs(g, u, v), m \in MallocArgs(g, u, v) :
        LET r == graph_add_weighted_edge(g, adj, u, v, weight, m)
        IN  /\ r.ret = 0 => NumEdges(adj) < MaxEdges
            /\ adj' = r.adj
            /\ last' = [op |-> "graph_add_weighted_edge", ret |-> r.ret,
                        null |-> (g = "NULL"), nomem |-> (r.ret = -2),
                        out |-> <<>>]
            /\ UNCHANGED <<notGraph, g_n>>

\* A call of graph_add_edge.
AddEdge ==
    \E g \in GraphArgs : \E u \in IndexArgs(g) : \E v \in SecondIndexArgs(g, u) :
    \E m \in MallocArgs(g, u, v) :
        LET r == graph_add_edge(g, adj, u, v, m)
        IN  /\ r.ret = 0 => NumEdges(adj) < MaxEdges
            /\ adj' = r.adj
            /\ last' = [op |-> "graph_add_edge", ret |-> r.ret,
                        null |-> (g = "NULL"), nomem |-> (r.ret = -2),
                        out |-> <<>>]
            /\ UNCHANGED <<notGraph, g_n>>

\* A call of graph_get_edge_weight.
GetEdgeWeight ==
    \E g \in GraphArgs : \E u \in IndexArgs(g) : \E v \in SecondIndexArgs(g, u) :
        /\ last' = [op |-> "graph_get_edge_weight",
                    ret |-> graph_get_edge_weight(g, adj, u, v),
                    null |-> (g = "NULL"), nomem |-> FALSE, out |-> <<>>]
        /\ UNCHANGED <<notGraph, g_n, adj>>

(* ---- Euler circuit: the existence test ---- *)

\* degree_vertex_adj(g, v): the length of v's list
degree_vertex_adj(a, v) == Len(a[v])

\* The first vertex with a non-empty list, -1 if there is none.
FirstNonIsolated(a) ==
    LET S == {i \in GraphVertices : degree_vertex_adj(a, i) > 0}
    IN  IF S = {} THEN -1 ELSE CHOOSE i \in S : \A j \in S : i <= j

\* for (e = g->adj[u].head; e; e = e->next)
\*     if (!vis[e->to]) { vis[e->to] = 1; v_push(&st, e->to); }
\* from the i-th entry of u's list on.  The stack holds each vertex at most
\* once, so within its first 16 slots no later push allocates.
RECURSIVE ScanNeighbours(_, _, _, _, _)
ScanNeighbours(a, u, i, st, vis) ==
    IF i > Len(a[u]) THEN [st |-> st, vis |-> vis]
    ELSE LET v == a[u][i].to
         IN  IF v \notin vis
                 THEN ScanNeighbours(a, u, i + 1, Append(st, v), vis \cup {v})
                 ELSE ScanNeighbours(a, u, i + 1, st, vis)

\* while (st.n) { u = v_pop(&st); ... } : the vertices marked at the end
RECURSIVE DfsVisit(_, _, _)
DfsVisit(a, st, vis) ==
    IF st = <<>> THEN vis
    ELSE LET u == st[Len(st)]
             r == ScanNeighbours(a, u, 1, SubSeq(st, 1, Len(st) - 1), vis)
         IN  DfsVisit(a, r.st, r.vis)

\* is_connected_ignore_isolated(g); visOk: calloc of vis succeeds, pushOk:
\* the realloc of the first v_push succeeds (its failure is ignored and
\* leaves the stack empty).
is_connected_ignore_isolated(a, visOk, pushOk) ==
    LET start == FirstNonIsolated(a)
    IN  IF start = -1 THEN 1
        ELSE IF ~visOk THEN 0
        ELSE LET vis == DfsVisit(a, IF pushOk THEN <<start>> ELSE <<>>, {start})
             IN  IF \A i \in GraphVertices :
                        degree_vertex_adj(a, i) > 0 => i \in vis
                     THEN 1 ELSE 0

\* graph_has_euler_circuit(g)
graph_has_euler_circuit(g, a, visOk, pushOk) ==
    IF g = "NULL" THEN 0
    ELSE IF is_connected_ignore_isolated(a, visOk, pushOk) = 0 THEN 0
    ELSE IF \E i \in GraphVertices : degree_vertex_adj(a, i) % 2 # 0 THEN 0
    ELSE IF \A i \in GraphVertices : degree_vertex_adj(a, i) = 0 THEN 0
    ELSE 1

\* A call of graph_has_euler_circuit; nomem: an allocation it tried failed.
HasEulerCircuit ==
    \E g \in GraphArgs, visOk, pushOk \in BOOLEAN :
        /\ last' = [op |-> "graph_has_euler_circuit",
                    ret |-> graph_has_euler_circuit(g, adj, visOk, pushOk),
                    null |-> (g = "NULL"),
                    nomem |-> /\ g # "NULL" /\ FirstNonIsolated(adj) # -1
                              /\ (~visOk \/ ~pushOk),
                    out |-> <<>>]
        /\ UNCHANGED <<notGraph, g_n, adj>>

GraphNext == AddWeightedEdge \/ AddEdge \/ GetEdgeWeight \/ HasEulerCircuit

GraphSpec == Init /\ [][GraphNext]_vars

(* ---- The algorithm kernels, on graphs of 1..GraphN vertices ---- *)

\* The kernels take a const Graph* and leave the graph as it is, so what a
\* kernel returns does not depend on the kernels run before it: a graph is
\* created and built and one kernel is run on it, which is the life of a
\* graph in process_weighted_request.
BuildOps == {"graph_create", "graph_add_weighted_edge"}
Built == last.op \in BuildOps

\* graph_create(n): NULL for n <= 0 and when a malloc fails, else a graph of
\* n vertices and no edges, which replaces the graph at hand.
NoEdges == [u \in GraphVertices |-> <<>>]
GraphCreate ==
    \E n \in 0..GraphN, ok \in BOOLEAN :
        LET made == n > 0 /\ ok
        IN  /\ Built
            /\ g_n' = IF made THEN n ELSE g_n
            /\ adj' = IF made THEN NoEdges ELSE adj
            /\ last' = [op |-> "graph_create", ret |-> 0, null |-> ~made,
                        nomem |-> (n > 0 /\ ~ok), out |-> <<>>]
            /\ UNCHANGED notGraph

\* A call of graph_add_weighted_edge that adds an edge: the calls that fail
\* leave the graph as it was, so the kernels are tried on the graphs that
\* the calls that succeed build.
BuildEdge ==
    \E u, v \in 0..(g_n - 1), weight \in Weights :
        LET r == graph_add_weighted_edge("g", adj, u, v, weight, <<TRUE, TRUE>>)
        IN  /\ Built
            /\ r.ret = 0
            /\ NumEdges(adj) < MaxEdges
            /\ adj' = r.adj
            /\ last' = [op |-> "graph_add_weighted_edge", ret |-> 0,
                        null |-> FALSE, nomem |-> FALSE, out |-> <<>>]
            /\ UNCHANGED <<notGraph, g_n>>

Min(S) == CHOOSE x \in S : \A y \in S : x <= y

\* build_edge_view: the undirected edges in the order the lists give them
\* (a regular edge at its smaller end, a self-loop at its second entry) and,
\* per vertex, the indices of its edges, a self-loop's twice.
RECURSIVE BuildEdgeView(_, _, _, _, _, _)
BuildEdgeView(n, a, u, i, ev, loop_half) ==
    IF u >= n THEN ev
    ELSE IF i > Len(a[u]) THEN BuildEdgeView(n, a, u + 1, 1, ev, loop_half)
    ELSE LET v == a[u][i].to
             m == Len(ev.edges) + 1
         IN  IF u = v
                 THEN IF loop_half[u] = 1
                          THEN BuildEdgeView(n, a, u, i + 1,
                                  [edges |-> Append(ev.edges, [u |-> u, v |-> u]),
                                   incid |-> [ev.incid EXCEPT ![u] = @ \o <<m, m>>]],
                                  [loop_half EXCEPT ![u] = 0])
                          ELSE BuildEdgeView(n, a, u, i + 1, ev,
                                  [loop_half EXCEPT ![u] = 1])
             ELSE IF u < v
                 THEN BuildEdgeView(n, a, u, i + 1,
                          [edges |-> Append(ev.edges, [u |-> u, v |-> v]),
                           incid |-> [ev.incid EXCEPT ![u] = Append(@, m),
                                                      ![v] = Append(@, m)]],
                          loop_half)
                 ELSE BuildEdgeView(n, a, u, i + 1, ev, loop_half)

build_edge_view(n, a) ==
    BuildEdgeView(n, a, 0, 1, [edges |-> <<>>, incid |-> NoEdges],
                  [u \in GraphVertices |-> 0])

\* while (it[u] < ev.incid[u].n && used[ev.incid[u].a[it[u]]]) it[u]++;
NextUnused(inc, i, used) ==
    LET S == {j \in i..Len(inc) : inc[j] \notin used}
    IN  IF S = {} THEN Len(inc) + 1 ELSE Min(S)

\* The main loop of graph_find_euler_circuit: the vertices pushed on path,
\* in the order of the pushes.
RECURSIVE Hierholzer(_, _, _, _, _)
Hierholzer(ev, stack, path, used, it) ==
    IF stack = <<>> THEN path
    ELSE LET u == stack[Len(stack)]
             i == NextUnused(ev.incid[u], it[u], used)
         IN  IF i = Len(ev.incid[u]) + 1
                 THEN Hierholzer(ev, SubSeq(stack, 1, Len(stack) - 1),
                                 Append(path, u), used, [it EXCEPT ![u] = i])
                 ELSE LET ei == ev.incid[u][i]
                          v  == IF u = ev.edges[ei].u THEN ev.edges[ei].v
                                                      ELSE ev.edges[ei].u
                      IN  Hierholzer(ev, Append(stack, v), path, used \cup {ei},
                                     [it EXCEPT ![u] = i + 1])

Reverse(q) == [k \in 1..Len(q) |-> q[Len(q) + 1 - k]]

\* How the allocations of one call of graph_find_euler_circuit turn out: the
\* two of the existence test, those of the edge view, used and it, the first
\* push on stack, and how many of the first pushes on path find no memory
\* (each push on an empty Vec asks for its 16 slots anew).  Both Vecs stay
\* within 16 slots here, so no later push allocates.
AllOk == [vis |-> TRUE, push |-> TRUE, ev |-> TRUE, used |-> TRUE,
          stack |-> TRUE, pathDrop |-> 0]
FindAllocs ==
    {AllOk, [AllOk EXCEPT !.vis = FALSE], [AllOk EXCEPT !.push = FALSE],
     [AllOk EXCEPT !.ev = FALSE], [AllOk EXCEPT !.used = FALSE],
     [AllOk EXCEPT !.stack = FALSE]}
        \cup {[AllOk EXCEPT !.pathDrop = k] : k \in 1..(MaxEdges + 1)}

\* graph_find_euler_circuit(g, &cycle, &len): [ret, out], out the cycle
graph_find_euler_circuit(g, n, a, al) ==
    IF g = "NULL" THEN [ret |-> 0, out |-> <<>>]
    ELSE IF graph_has_euler_circuit(g, a, al.vis, al.push) = 0
        THEN [ret |-> 0, out |-> <<>>]
    ELSE IF ~al.ev THEN [ret |-> 0, out |-> <<>>]
    ELSE LET ev    == build_edge_view(n, a)
             S     == {i \in 0..(n - 1) : Len(ev.incid[i]) > 0}
         IN  IF S = {} \/ ~al.used THEN [ret |-> 0, out |-> <<>>]
             ELSE LET start  == Min(S)
                      pushed == Hierholzer(ev, IF al.stack THEN <<start>> ELSE <<>>,
                                           <<>>, {}, [u \in GraphVertices |-> 1])
                      kept   == SubSeq(pushed, al.pathDrop + 1, Len(pushed))
                  IN  IF Len(kept) < 1 THEN [ret |-> 0, out |-> <<>>]
                      ELSE [ret |-> 1, out |-> Reverse(kept)]

\* A call of graph_find_euler_circuit.
FindEulerCircuit ==
    \E g \in GraphArgs : \E al \in (IF g = "NULL" THEN {AllOk} ELSE FindAllocs) :
        LET r == graph_find_euler_circuit(g, g_n, adj, al)
        IN  /\ Built
            /\ last' = [op |-> "graph_find_euler_circuit", ret |-> r.ret,
                        null |-> (g = "NULL"), nomem |-> (al # AllOk),
                        out |-> r.out]
            /\ UNCHANGED <<notGraph, g_n, adj>>

(* ---- Max flow (Edmonds-Karp) ---- *)

\* build_capacity_matrix / build_weight_matrix: cell [u][v] holds the weight
\* of the last entry for v in u's list, 0 if there is none or u = v.
RECURSIVE FillRow(_, _, _, _)
FillRow(a, u, i, row) ==
    IF i > Len(a[u]) THEN row
    ELSE LET v == a[u][i].to
         IN  FillRow(a, u, i + 1,
                     IF u # v THEN [row EXCEPT ![v] = a[u][i].weight] ELSE row)

build_capacity_matrix(n, a) ==
    [u \in 0..(n - 1) |-> FillRow(a, u, 1, [v \in 0..(n - 1) |-> 0])]

\* The for loop of bfs_find_path over v, from v on, with u off the queue.
RECURSIVE BfsScan(_, _, _, _, _, _, _, _)
BfsScan(res_graph, n, u, v, sink, q, visited, parent) ==
    IF v >= n THEN [found |-> 0, q |-> q, visited |-> visited, parent |-> parent]
    ELSE IF v \notin visited /\ res_graph[u][v] > 0
        THEN IF v = sink
                 THEN [found |-> 1, q |-> Append(q, v), visited |-> visited \cup {v},
                       parent |-> [parent EXCEPT ![v] = u]]
                 ELSE BfsScan(res_graph, n, u, v + 1, sink, Append(q, v),
                              visited \cup {v}, [parent EXCEPT ![v] = u])
        ELSE BfsScan(res_graph, n, u, v + 1, sink, q, visited, parent)

\* while (!queue_is_empty(q) && !found); the queue has room for n vertices
\* and each vertex enters it once.
RECURSIVE BfsLoop(_, _, _, _, _, _)
BfsLoop(res_graph, n, sink, q, visited, parent) ==
    IF q = <<>> THEN [found |-> 0, parent |-> parent]
    ELSE LET r == BfsScan(res_graph, n, Head(q), 0, sink, Tail(q), visited, parent)
         IN  IF r.found = 1 THEN [found |-> 1, parent |-> r.parent]
             ELSE BfsLoop(res_graph, n, sink, r.q, r.visited, r.parent)

\* A search that finds no path.
bfs_never_finds(res_graph, n, source, sink, parent, ok) ==
    [found |-> 0, parent |-> parent]

\* bfs_find_path; ok: visited and the queue are allocated.  Without them it
\* returns 0, as it does when the sink is out of reach.
bfs_find_path(res_graph, n, source, sink, parent, ok) ==
    IF ~ok THEN [found |-> 0, parent |-> parent]
    ELSE BfsLoop(res_graph, n, sink, <<source>>, {source},
                 [parent EXCEPT ![source] = -1])

\* The vertices of the path found, from the sink back to the source's child.
RECURSIVE PathBack(_, _, _)
PathBack(source, v, parent) ==
    IF v = source THEN <<>> ELSE <<v>> \o PathBack(source, parent[v], parent)

\* find_path_flow: the least residual capacity along the path
find_path_flow(res_graph, source, sink, parent) ==
    LET p == PathBack(source, sink, parent)
    IN  Min({res_graph[parent[p[i]]][p[i]] : i \in 1..Len(p)})

\* update_residual_graph along the path, from its i-th vertex on
RECURSIVE UpdateFrom(_, _, _, _, _)
UpdateFrom(res_graph, p, i, parent, path_flow) ==
    IF i > Len(p) THEN res_graph
    ELSE LET v == p[i]
             u == parent[v]
         IN  UpdateFrom([x \in DOMAIN res_graph |-> [y \in DOMAIN res_graph[x] |->
                            IF x = u /\ y = v THEN res_graph[x][y] - path_flow
                            ELSE IF x = v /\ y = u THEN res_graph[x][y] + path_flow
                            ELSE res_graph[x][y]]],
                        p, i + 1, parent, path_flow)

\* An update that takes the flow off the forward cells only.
update_forward_only(res_graph, source, sink, parent, path_flow) ==
    LET p == PathBack(source, sink, parent)
    IN  [u \in DOMAIN res_graph |-> [v \in DOMAIN res_graph[u] |->
            IF \E i \in 1..Len(p) : p[i] = v /\ parent[v] = u
                THEN res_graph[u][v] - path_flow ELSE res_graph[u][v]]]

update_residual_graph(res_graph, source, sink, parent, path_flow) ==
    UpdateFrom(res_graph, PathBack(source, sink, parent), 1, parent, path_flow)

\* The main loop of graph_max_flow, at its k-th call of bfs_find_path;
\* failAt: the call whose allocations fail (0: none does).  max_flow: the
\* flow when the loop ends; steps: per turn of the loop, the matrix after
\* the update, the path's flow and the flow added up so far.
RECURSIVE EdmondsKarp(_, _, _, _, _, _, _, _)
EdmondsKarp(res_graph, n, source, sink, parent, max_flow, k, failAt) ==
    LET b == bfs_find_path(res_graph, n, source, sink, parent, k # failAt)
    IN  IF b.found = 0 THEN [max_flow |-> max_flow, steps |-> <<>>]
        ELSE LET path_flow == find_path_flow(res_graph, source, sink, b.parent)
                 res == update_residual_graph(res_graph, source, sink,
                                              b.parent, path_flow)
                 rest == EdmondsKarp(res, n, source, sink, b.parent,
                                     max_flow + path_flow, k + 1, failAt)
             IN  [max_flow |-> rest.max_flow,
                  steps |-> <<[res_graph |-> res, path_flow |-> path_flow,
                               max_flow |-> max_flow + path_flow]>>
                                \o rest.steps]

\* The searches a call of graph_max_flow may lose to an allocation failure.
MaxBfsCalls == 2

\* graph_max_flow(g, source, sink, &value): [ret, out], out the value;
\* setupOk: the matrix and parent are allocated.  loop: the matrix as
\* built and the turns of the main loop.
graph_max_flow(g, n, a, source, sink, setupOk, failAt) ==
    IF g = "NULL" \/ source < 0 \/ sink < 0 \/ source >= n \/ sink >= n
           \/ source = sink
        THEN [ret |-> 0, out |-> <<>>, loop |-> <<>>]
    ELSE IF ~setupOk THEN [ret |-> 0, out |-> <<>>, loop |-> <<>>]
    ELSE LET res_graph == build_capacity_matrix(n, a)
             r == EdmondsKarp(res_graph, n, source, sink,
                              [v \in 0..(n - 1) |-> -1], 0, 1, failAt)
         IN  [ret |-> 1, out |-> <<r.max_flow>>, loop |-> <<res_graph, r.steps>>]

\* graph_max_flow_default(g, &value)
graph_max_flow_default(g, n, a, setupOk, failAt) ==
    IF g = "NULL" \/ n < 2 THEN [ret |-> 0, out |-> <<>>, loop |-> <<>>]
    ELSE graph_max_flow(g, n, a, 0, n - 1, setupOk, failAt)

\* The calls of graph_max_flow that differ in what they do: the pair is
\* not looked at with a NULL graph, and nothing is allocated for a pair
\* that is refused.
ValidPair(g, source, sink) ==
    in_bounds(g, source) /\ in_bounds(g, sink) /\ source # sink
SetupArgs(g, source, sink) ==
    IF ValidPair(g, source, sink) THEN BOOLEAN ELSE {TRUE}
FailAtArgs(g, source, sink, setupOk) ==
    IF ValidPair(g, source, sink) /\ setupOk THEN 0..MaxBfsCalls ELSE {0}

\* A call of graph_max_flow; last.out: source, sink and what was written,
\* and after them the matrix as built and the turns of the main loop.
MaxFlow ==
    \E g \in GraphArgs : \E source, sink \in IndexArgs(g) :
    \E setupOk \in SetupArgs(g, source, sink) :
    \E failAt \in FailAtArgs(g, source, sink, setupOk) :
        LET r == graph_max_flow(g, g_n, adj, source, sink, setupOk, failAt)
        IN  /\ Built
            /\ last' = [op |-> "graph_max_flow", ret |-> r.ret,
                        null |-> (g = "NULL"),
                        nomem |-> (~setupOk \/ failAt # 0),
                        out |-> <<source, sink>> \o r.out \o r.loop]
            /\ UNCHANGED <<notGraph, g_n, adj>>

(* ---- Minimum spanning tree (Prim) ---- *)

INT_MAX == 2147483647

\* build_weight_matrix: filled as the capacity matrix is
build_weight_matrix(n, a) == build_capacity_matrix(n, a)

PQ_Node(weight, vertex) == [weight |-> weight, vertex |-> vertex]

pq_swap(data, i, j) == [data EXCEPT ![i] = data[j], ![j] = data[i]]

\* pq_heapify_up; the C index k is position k + 1 here, so the parent of
\* position i is i \div 2.
RECURSIVE pq_heapify_up(_, _)
pq_heapify_up(data, index) ==
    IF index <= 1 THEN data
    ELSE LET parent == index \div 2
         IN  IF data[index].weight >= data[parent].weight THEN data
             ELSE pq_heapify_up(pq_swap(data, index, parent), parent)

RECURSIVE pq_heapify_down(_, _)
pq_heapify_down(data, index) ==
    LET left  == 2 * index
        right == 2 * index + 1
        s1 == IF left <= Len(data) /\ data[left].weight < data[index].weight
                  THEN left ELSE index
        smallest == IF right <= Len(data) /\ data[right].weight < data[s1].weight
                        THEN right ELSE s1
    IN  IF smallest = index THEN data
        ELSE pq_heapify_down(pq_swap(data, index, smallest), smallest)

\* pq_push: dropped when the queue is full
pq_push(data, capacity, weight, vertex) ==
    IF Len(data) >= capacity THEN data
    ELSE pq_heapify_up(Append(data, PQ_Node(weight, vertex)), Len(data) + 1)

\* pq_pop: what is left of the queue
pq_pop(data) ==
    IF Len(data) = 1 THEN <<>>
    ELSE pq_heapify_down([i \in 1..(Len(data) - 1) |->
                             IF i = 1 THEN data[Len(data)] ELSE data[i]], 1)

\* An edge that offers v nothing better is left alone.
RelaxesAny(weight, v, in_mst, key) == weight > 0 /\ v \notin in_mst

\* if (weight > 0 && !in_mst[v] && weight < key[v])
Relaxes(weight, v, in_mst, key) ==
    weight > 0 /\ v \notin in_mst /\ weight < key[v]

\* for (v = 0; v < n; v++) of Prim's main loop, from v on
RECURSIVE PrimScan(_, _, _, _, _, _, _, _)
PrimScan(weight_matrix, n, u, v, pq, in_mst, key, parent) ==
    IF v >= n THEN [pq |-> pq, key |-> key, parent |-> parent]
    ELSE LET weight == weight_matrix[u][v]
         IN  IF Relaxes(weight, v, in_mst, key)
                 THEN PrimScan(weight_matrix, n, u, v + 1,
                               pq_push(pq, n * n, weight, v), in_mst,
                               [key EXCEPT ![v] = weight],
                               [parent EXCEPT ![v] = u])
                 ELSE PrimScan(weight_matrix, n, u, v + 1, pq, in_mst, key, parent)

\* while (!pq_is_empty(pq))
RECURSIVE PrimLoop(_, _, _, _, _, _)
PrimLoop(weight_matrix, n, pq, in_mst, key, parent) ==
    IF pq = <<>> THEN [in_mst |-> in_mst, parent |-> parent]
    ELSE LET u == pq[1].vertex
         IN  IF u \in in_mst
                 THEN PrimLoop(weight_matrix, n, pq_pop(pq), in_mst, key, parent)
                 ELSE LET r == PrimScan(weight_matrix, n, u, 0, pq_pop(pq),
                                        in_mst \cup {u}, key, parent)
                      IN  PrimLoop(weight_matrix, n, r.pq, in_mst \cup {u},
                                   r.key, r.parent)

\* Whatever was reached counts as the whole graph.
SpansSome(in_mst, n) == TRUE

\* if (vertices_in_mst != n): not connected
SpansAll(in_mst, n) == Cardinality(in_mst) = n

\* The edges {parent[v], v, weight} for v = 1..n-1, from v on.
RECURSIVE MstEdges(_, _, _, _)
MstEdges(weight_matrix, n, v, parent) ==
    IF v >= n THEN <<>>
    ELSE (IF parent[v] # -1
              THEN <<[u |-> parent[v], v |-> v,
                      weight |-> weight_matrix[parent[v]][v]]>>
              ELSE <<>>) \o MstEdges(weight_matrix, n, v + 1, parent)

RECURSIVE SumWeights(_)
SumWeights(edges) ==
    IF edges = <<>> THEN 0 ELSE Head(edges).weight + SumWeights(Tail(edges))

MST_Result(is_connected, edges) ==
    [is_connected |-> is_connected, num_edges |-> Len(edges),
     total_weight |-> SumWeights(edges), edges |-> edges]

\* How the allocations of graph_mst_prim turn out: all succeed, one of the
\* work arrays or the queue fails, or the edges array of the result fails.
MstAllocs == {"ok", "setup", "edges"}

\* graph_mst_prim(g, &result): [ret, out], out the result as the call
\* leaves it
graph_mst_prim(g, n, a, al) ==
    IF g = "NULL" \/ n < 1 THEN [ret |-> 0, out |-> <<>>]
    ELSE IF n = 1 THEN [ret |-> 1, out |-> MST_Result(1, <<>>)]
    ELSE IF al = "setup" THEN [ret |-> 0, out |-> MST_Result(0, <<>>)]
    ELSE LET weight_matrix == build_weight_matrix(n, a)
             r == PrimLoop(weight_matrix, n, <<PQ_Node(0, 0)>>, {},
                           [i \in 0..(n - 1) |-> IF i = 0 THEN 0 ELSE INT_MAX],
                           [i \in 0..(n - 1) |-> -1])
         IN  IF ~SpansAll(r.in_mst, n) THEN [ret |-> 1, out |-> MST_Result(0, <<>>)]
             ELSE IF al = "edges" THEN [ret |-> 0, out |-> MST_Result(1, <<>>)]
             ELSE [ret |-> 1,
                   out |-> MST_Result(1, MstEdges(weight_matrix, n, 1, r.parent))]

\* A call of graph_mst_prim.
MstPrim ==
    \E g \in GraphArgs : \E al \in (IF g = "NULL" THEN {"ok"} ELSE MstAllocs) :
        LET ok == graph_mst_prim(g, g_n, adj, "ok")
            r  == graph_mst_prim(g, g_n, adj, al)
        IN  /\ Built
            /\ al # "ok" => r # ok
            /\ last' = [op |-> "graph_mst_prim", ret |-> r.ret,
                        null |-> (g = "NULL"), nomem |-> (al # "ok"),
                        out |-> r.out]
            /\ UNCHANGED <<notGraph, g_n, adj>>

(* ---- Maximum clique and clique counting ---- *)

\* build_adjacency_matrix: cell [u][v] is 1 if u's list has an entry for
\* v # u, else 0.
build_adjacency_matrix(n, a) ==
    [u \in 0..(n - 1) |-> [v \in 0..(n - 1) |->
        IF u # v /\ count_neighbor(a, u, v) > 0 THEN 1 ELSE 0]]

\* is_connected_to_all(adj_matrix, v, current_clique, clique_size)
is_connected_to_all(adj_matrix, v, current_clique) ==
    \A i \in 1..Len(current_clique) : adj_matrix[v][current_clique[i]] # 0

\* max_clique_backtrack: the best clique after the call.  TryFrom is its
\* for loop from v on.
RECURSIVE max_clique_backtrack(_, _, _, _, _)
RECURSIVE MaxCliqueTryFrom(_, _, _, _, _)
max_clique_backtrack(adj_matrix, n, start_vertex, current_clique, best_clique) ==
    MaxCliqueTryFrom(adj_matrix, n, start_vertex, current_clique,
                     IF Len(current_clique) > Len(best_clique)
                         THEN current_clique ELSE best_clique)
MaxCliqueTryFrom(adj_matrix, n, v, current_clique, best_clique) ==
    IF v >= n THEN best_clique
    ELSE MaxCliqueTryFrom(adj_matrix, n, v + 1, current_clique,
            IF is_connected_to_all(adj_matrix, v, current_clique)
                THEN max_clique_backtrack(adj_matrix, n, v + 1,
                                          Append(current_clique, v), best_clique)
                ELSE best_clique)

\* for (start = 0; start < n; start++) of graph_max_clique, from start on
RECURSIVE MaxCliqueStarts(_, _, _, _)
MaxCliqueStarts(adj_matrix, n, start, best_clique) ==
    IF start >= n THEN best_clique
    ELSE MaxCliqueStarts(adj_matrix, n, start + 1,
            max_clique_backtrack(adj_matrix, n, start + 1, <<start>>, best_clique))

MaxClique_Result(vertices, is_valid) ==
    [vertices |-> vertices, size |-> Len(vertices), is_valid |-> is_valid]

\* How the allocations of a clique kernel turn out: all succeed, the matrix
\* or a work array fails, or the array of the result fails.
CliqueAllocs == {"ok", "setup", "result"}

\* graph_max_clique(g, &result): [ret, out], out the result as the call
\* leaves it (graph_create makes no graph of 0 vertices)
graph_max_clique(g, n, a, al) ==
    IF g = "NULL" THEN [ret |-> 0, out |-> <<>>]
    ELSE IF n = 1
        THEN IF al = "result" THEN [ret |-> 0, out |-> MaxClique_Result(<<>>, 0)]
             ELSE [ret |-> 1, out |-> MaxClique_Result(<<0>>, 1)]
    ELSE IF al = "setup" THEN [ret |-> 0, out |-> MaxClique_Result(<<>>, 0)]
    ELSE LET best_clique == MaxCliqueStarts(build_adjacency_matrix(n, a), n, 0, <<>>)
         IN  IF Len(best_clique) > 0
                 THEN IF al = "result"
                          THEN [ret |-> 0, out |-> MaxClique_Result(<<>>, 0)]
                          ELSE [ret |-> 1, out |-> MaxClique_Result(best_clique, 1)]
                 ELSE [ret |-> 1, out |-> MaxClique_Result(<<>>, 0)]

\* A call of graph_max_clique.
MaxClique ==
    \E g \in GraphArgs : \E al \in (IF g = "NULL" THEN {"ok"} ELSE CliqueAllocs) :
        LET ok == graph_max_clique(g, g_n, adj, "ok")
            r  == graph_max_clique(g, g_n, adj, al)
        IN  /\ Built
            /\ al # "ok" => r # ok
            /\ last' = [op |-> "graph_max_clique", ret |-> r.ret,
                        null |-> (g = "NULL"), nomem |-> (al # "ok"),
                        out |-> r.out]
            /\ UNCHANGED <<notGraph, g_n, adj>>

\* A clique of one vertex is not worth counting.
CountedFromPairs(current_size, max_possible_size) ==
    current_size > 1 /\ current_size <= max_possible_size

\* if (current_size > 0 && current_size <= max_possible_size)
Counted(current_size, max_possible_size) ==
    current_size > 0 /\ current_size <= max_possible_size

\* count_cliques_recursive: counts_by_size after the call.  TryFrom is its
\* for loop from v on.
RECURSIVE count_cliques_recursive(_, _, _, _, _, _)
RECURSIVE CountTryFrom(_, _, _, _, _, _)
count_cliques_recursive(adj_matrix, n, start_vertex, current_clique, counts_by_size, max_possible_size) ==
    CountTryFrom(adj_matrix, n, start_vertex, current_clique,
                 IF Counted(Len(current_clique), max_possible_size)
                     THEN [counts_by_size EXCEPT ![Len(current_clique)] = @ + 1]
                     ELSE counts_by_size,
                 max_possible_size)
CountTryFrom(adj_matrix, n, v, current_clique, counts_by_size, max_possible_size) ==
    IF v >= n THEN counts_by_size
    ELSE CountTryFrom(adj_matrix, n, v + 1, current_clique,
            IF is_connected_to_all(adj_matrix, v, current_clique)
                THEN count_cliques_recursive(adj_matrix, n, v + 1,
                        Append(current_clique, v), counts_by_size,
                        max_possible_size)
                ELSE counts_by_size,
            max_possible_size)

\* Calculate total and find max size: the loop over i = 1..n, from i on
RECURSIVE TotalAndMax(_, _, _, _, _)
TotalAndMax(counts_by_size, n, i, total, max_size) ==
    IF i > n THEN [total |-> total, max_size |-> max_size]
    ELSE IF counts_by_size[i] > 0
        THEN TotalAndMax(counts_by_size, n, i + 1, total + counts_by_size[i], i)
        ELSE TotalAndMax(counts_by_size, n, i + 1, total, max_size)

\* graph_count_all_cliques(g, &result): [ret, out]; the only allocations
\* are those made before the count
graph_count_all_cliques(g, n, a, al) ==
    IF g = "NULL" THEN [ret |-> 0, out |-> <<>>]
    ELSE IF al = "setup"
        THEN [ret |-> 0, out |-> [counts_by_size |-> <<>>, max_size |-> 0,
                                  total_cliques |-> 0, is_valid |-> 0]]
    ELSE LET counts == count_cliques_recursive(build_adjacency_matrix(n, a), n, 0,
                           <<>>, [i \in 0..n |-> 0], n)
             t == TotalAndMax(counts, n, 1, 0, 0)
         IN  [ret |-> 1, out |-> [counts_by_size |-> counts, max_size |-> t.max_size,
                                  total_cliques |-> t.total, is_valid |-> 1]]

\* A call of graph_count_all_cliques.
CountAllCliques ==
    \E g \in GraphArgs : \E al \in (IF g = "NULL" THEN {"ok"} ELSE {"ok", "setup"}) :
        LET r == graph_count_all_cliques(g, g_n, adj, al)
        IN  /\ Built
            /\ last' = [op |-> "graph_count_all_cliques", ret |-> r.ret,
                        null |-> (g = "NULL"), nomem |-> (al # "ok"),
                        out |-> r.out]
            /\ UNCHANGED <<notGraph, g_n, adj>>

\* A branch is given up as soon as it has no vertex to spare.
PruneEager(current_size, n, start_vertex, target_size) ==
    current_size + (n - start_vertex) <= target_size

\* if (current_size + (n - start_vertex) < target_size) return;
Prune(current_size, n, start_vertex, target_size) ==
    current_size + (n - start_vertex) < target_size

\* count_cliques_of_size_recursive: *count (cnt here) after the call.  TryFrom is its
\* for loop from v on.
RECURSIVE count_cliques_of_size_recursive(_, _, _, _, _, _)
RECURSIVE CountOfSizeTryFrom(_, _, _, _, _, _)
count_cliques_of_size_recursive(adj_matrix, n, start_vertex, current_clique, target_size, cnt) ==
    IF Len(current_clique) = target_size THEN cnt + 1
    ELSE IF Prune(Len(current_clique), n, start_vertex, target_size) THEN cnt
    ELSE CountOfSizeTryFrom(adj_matrix, n, start_vertex, current_clique,
                            target_size, cnt)
CountOfSizeTryFrom(adj_matrix, n, v, current_clique, target_size, cnt) ==
    IF v >= n THEN cnt
    ELSE CountOfSizeTryFrom(adj_matrix, n, v + 1, current_clique, target_size,
            IF is_connected_to_all(adj_matrix, v, current_clique)
                THEN count_cliques_of_size_recursive(adj_matrix, n, v + 1,
                        Append(current_clique, v), target_size, cnt)
                ELSE cnt)

\* graph_count_cliques_of_size(g, clique_size, &count): [ret, out], out the
\* count
graph_count_cliques_of_size(g, n, a, clique_size, al) ==
    IF g = "NULL" \/ clique_size < 1 THEN [ret |-> 0, out |-> <<>>]
    ELSE IF clique_size > n THEN [ret |-> 1, out |-> <<0>>]
    ELSE IF al = "setup" THEN [ret |-> 0, out |-> <<0>>]
    ELSE [ret |-> 1,
          out |-> <<count_cliques_of_size_recursive(build_adjacency_matrix(n, a),
                        n, 0, <<>>, clique_size, 0)>>]

\* A call of graph_count_cliques_of_size; last.out: clique_size and what
\* was written.
CountCliquesOfSize ==
    \E g \in GraphArgs : \E clique_size \in 0..(GraphN + 1) :
    \E al \in (IF g = "NULL" \/ clique_size < 1 \/ clique_size > g_n
                  THEN {"ok"} ELSE {"ok", "setup"}) :
        LET r == graph_count_cliques_of_size(g, g_n, adj, clique_size, al)
        IN  /\ Built
            /\ last' = [op |-> "graph_count_cliques_of_size", ret |-> r.ret,
                        null |-> (g = "NULL"), nomem |-> (al # "ok"),
                        out |-> <<clique_size>> \o r.out]
            /\ UNCHANGED <<notGraph, g_n, adj>>

(* ---- Strategies and the factory ---- *)

\* A char* result: NULL, or the heap string that snprintf wrote.  No text
\* here comes near the size of its buffer (64, 256 or 1024 bytes).
NullString == [null |-> TRUE, text |-> ""]
String(text) == [null |-> FALSE, text |-> text]

\* What snprintf writes for %d
Digit == <<"0", "1", "2", "3", "4", "5", "6", "7", "8", "9">>
RECURSIVE Dec(_)
Dec(x) ==
    IF x < 0 THEN "-" \o Dec(-x)
    ELSE IF x < 10 THEN Digit[x + 1]
    ELSE Dec(x \div 10) \o Digit[(x % 10) + 1]

\* How the allocations under one strategy turn out: its result buffer, the
\* two of the existence test it calls, and those of its kernel.
StrategyOk ==
    [result |-> TRUE, vis |-> TRUE, push |-> TRUE, find |-> AllOk,
     setupOk |-> TRUE, failAt |-> 0, mst |-> "ok", clique |-> "ok", count |-> "ok"]

euler_strategy_execute(g, n, a, al) ==
    IF ~al.result THEN NullString
    ELSE IF graph_has_euler_circuit(g, a, al.vis, al.push) # 0
        THEN LET r == graph_find_euler_circuit(g, n, a, al.find)
             IN  IF r.ret # 0
                     THEN String("Euler circuit found (length: " \o Dec(Len(r.out))
                                 \o ")")
                     ELSE String("Euler circuit exists but extraction failed")
    ELSE String("No Euler circuit exists")

maxflow_strategy_execute(g, n, a, al) ==
    IF ~al.result THEN NullString
    ELSE LET r == graph_max_flow_default(g, n, a, al.setupOk, al.failAt)
         IN  IF r.ret # 0 THEN String("Max flow is: " \o Dec(r.out[1]))
             ELSE String("Max flow calculation failed")

\* The edge list of the MST text, from edge i on
RECURSIVE MstEdgeText(_, _)
MstEdgeText(edges, i) ==
    IF i > Len(edges) THEN ""
    ELSE (IF i > 1 THEN ", " ELSE "")
             \o Dec(edges[i].u) \o "-" \o Dec(edges[i].v)
             \o "(" \o Dec(edges[i].weight) \o ")"
             \o MstEdgeText(edges, i + 1)

mst_strategy_execute(g, n, a, al) ==
    IF ~al.result THEN NullString
    ELSE LET r == graph_mst_prim(g, n, a, al.mst)
         IN  IF r.ret # 0
                 THEN IF r.out.is_connected # 0
                          THEN String("MST weight: " \o Dec(r.out.total_weight)
                                      \o ", Edges: " \o MstEdgeText(r.out.edges, 1))
                          ELSE String("MST calculation failed (graph not connected)")
                 ELSE String("MST calculation failed")

\* graph_max_clique_size(g, &clique_size): [ret, out], out the size
graph_max_clique_size(g, n, a, al) ==
    IF g = "NULL" THEN [ret |-> 0, out |-> <<>>]
    ELSE LET r == graph_max_clique(g, n, a, al)
         IN  IF r.ret = 0 THEN [ret |-> 0, out |-> <<>>]
             ELSE IF r.out.is_valid = 0 THEN [ret |-> 0, out |-> <<>>]
             ELSE [ret |-> 1, out |-> <<r.out.size>>]

maxclique_strategy_execute(g, n, a, al) ==
    IF ~al.result THEN NullString
    ELSE LET r == graph_max_clique_size(g, n, a, al.clique)
         IN  IF r.ret # 0 THEN String("Max clique size is: " \o Dec(r.out[1]))
             ELSE String("Max clique calculation failed")

\* graph_total_clique_count(g, &total_count): [ret, out], out the total
graph_total_clique_count(g, n, a, al) ==
    IF g = "NULL" THEN [ret |-> 0, out |-> <<>>]
    ELSE LET r == graph_count_all_cliques(g, n, a, al)
         IN  IF r.ret = 0 THEN [ret |-> 0, out |-> <<>>]
             ELSE IF r.out.is_valid = 0 THEN [ret |-> 0, out |-> <<>>]
             ELSE [ret |-> 1, out |-> <<r.out.total_cliques>>]

cliquecount_strategy_execute(g, n, a, al) ==
    IF ~al.result THEN NullString
    ELSE LET r == graph_total_clique_count(g, n, a, al.count)
         IN  IF r.ret # 0 THEN String("Total cliques count is: " \o Dec(r.out[1]))
             ELSE String("Clique counting failed")

\* static AlgorithmStrategy strategies[]: the registry, in its order; execute
\* is the name of the function the entry points at.
strategies ==
    <<[execute |-> "euler_strategy_execute", name |-> "euler", id |-> 1],
      [execute |-> "maxflow_strategy_execute", name |-> "maxflow", id |-> 2],
      [execute |-> "mst_strategy_execute", name |-> "mst", id |-> 3],
      [execute |-> "maxclique_strategy_execute", name |-> "maxclique", id |-> 4],
      [execute |-> "cliquecount_strategy_execute", name |-> "cliquecount",
       id |-> 5]>>

\* No strategy: the NULL AlgorithmStrategy*
NoStrategy == [execute |-> "NULL", name |-> "", id |-> 0]

\* algorithm_get_strategy(algorithm_id): the first entry with that id
RECURSIVE StrategyFrom(_, _)
StrategyFrom(algorithm_id, i) ==
    IF i > Len(strategies) THEN NoStrategy
    ELSE IF strategies[i].id = algorithm_id THEN strategies[i]
    ELSE StrategyFrom(algorithm_id, i + 1)

algorithm_get_strategy(algorithm_id) == StrategyFrom(algorithm_id, 1)

\* The call through the function pointer strategy->execute
Call(execute, g, n, a, al) ==
    CASE execute = "euler_strategy_execute" -> euler_strategy_execute(g, n, a, al)
      [] execute = "maxflow_strategy_execute" -> maxflow_strategy_execute(g, n, a, al)
      [] execute = "mst_strategy_execute" -> mst_strategy_execute(g, n, a, al)
      [] execute = "maxclique_strategy_execute" ->
             maxclique_strategy_execute(g, n, a, al)
      [] execute = "cliquecount_strategy_execute" ->
             cliquecount_strategy_execute(g, n, a, al)

\* algorithm_context_execute(&context): [result, ran], ran the function
\* that was called, "NULL" if none was
algorithm_context_execute(strategy, g, n, a, al) ==
    IF strategy = NoStrategy \/ g = "NULL"
        THEN [result |-> NullString, ran |-> "NULL"]
    ELSE [result |-> Call(strategy.execute, g, n, a, al), ran |-> strategy.execute]

\* enum AlgorithmType
ALGO_EULER == 1
ALGO_MAX_FLOW == 2
ALGO_MST == 3
ALGO_MAX_CLIQUE == 4
ALGO_CLIQUE_COUNT == 5

\* Every id is given a type: one outside 1..5 that of the first strategy.
TypeForAnyId(algorithm_id) ==
    IF algorithm_id \in 2..5 THEN algorithm_id ELSE ALGO_EULER

algorithm_factory_get_type(algorithm_id) ==
    CASE algorithm_id = 1 -> ALGO_EULER
      [] algorithm_id = 2 -> ALGO_MAX_FLOW
      [] algorithm_id = 3 -> ALGO_MST
      [] algorithm_id = 4 -> ALGO_MAX_CLIQUE
      [] algorithm_id = 5 -> ALGO_CLIQUE_COUNT
      [] OTHER -> -1

algorithm_factory_create_strategy(algo_type) ==
    CASE algo_type = ALGO_EULER -> algorithm_get_strategy(1)
      [] algo_type = ALGO_MAX_FLOW -> algorithm_get_strategy(2)
      [] algo_type = ALGO_MST -> algorithm_get_strategy(3)
      [] algo_type = ALGO_MAX_CLIQUE -> algorithm_get_strategy(4)
      [] algo_type = ALGO_CLIQUE_COUNT -> algorithm_get_strategy(5)
      [] OTHER -> NoStrategy

algorithm_factory_is_supported(algo_type) ==
    algo_type >= ALGO_EULER /\ algo_type <= ALGO_CLIQUE_COUNT

\* algorithm_factory_execute(g, algorithm_id): [result, ran]; al.result is
\* also how the malloc(64) of an error string turns out
algorithm_factory_execute(g, n, a, algorithm_id, al) ==
    LET algo_type == algorithm_factory_get_type(algorithm_id)
        strategy  == algorithm_factory_create_strategy(algo_type)
    IN  IF algo_type = -1
            THEN [result |-> IF al.result
                                 THEN String("Factory Error: Invalid algorithm ID "
                                             \o Dec(algorithm_id))
                                 ELSE NullString,
                  ran |-> "NULL"]
        ELSE IF ~algorithm_factory_is_supported(algo_type)
            THEN [result |-> IF al.result
                                 THEN String("Factory Error: Algorithm not supported")
                                 ELSE NullString,
                  ran |-> "NULL"]
        ELSE IF strategy = NoStrategy
            THEN [result |-> IF al.result
                                 THEN String("Factory Error: Strategy creation failed")
                                 ELSE NullString,
                  ran |-> "NULL"]
        ELSE algorithm_context_execute(strategy, g, n, a, al)

\* The ids a caller may pass
IdArgs == 0..6

\* The allocation outcomes that differ for a call of the factory: those of
\* the strategy the id selects, and nothing but the error buffer otherwise.
KernelAllocs(algorithm_id) ==
    CASE algorithm_id = 1 ->
             {[StrategyOk EXCEPT !.vis = v, !.find = f] :
                  v \in BOOLEAN, f \in {AllOk, [AllOk EXCEPT !.ev = FALSE]}}
      [] algorithm_id = 2 ->
             {[StrategyOk EXCEPT !.setupOk = s] : s \in BOOLEAN}
                 \cup {[StrategyOk EXCEPT !.failAt = 1]}
      [] algorithm_id = 3 -> {[StrategyOk EXCEPT !.mst = m] : m \in MstAllocs}
      [] algorithm_id = 4 -> {[StrategyOk EXCEPT !.clique = c] : c \in CliqueAllocs}
      [] algorithm_id = 5 ->
             {[StrategyOk EXCEPT !.count = c] : c \in {"ok", "setup"}}
      [] OTHER -> {StrategyOk}

StrategyAllocs(g, algorithm_id) ==
    IF g = "NULL" /\ algorithm_id \in 1..5 THEN {StrategyOk}
    ELSE IF algorithm_id \in 1..5
        THEN KernelAllocs(algorithm_id) \cup {[StrategyOk EXCEPT !.result = FALSE]}
    ELSE {StrategyOk, [StrategyOk EXCEPT !.result = FALSE]}

\* A call of algorithm_factory_execute; last.out: the id, the result and
\* the strategy function that ran.
FactoryExecute ==
    \E g \in GraphArgs, algorithm_id \in IdArgs :
    \E al \in StrategyAllocs(g, algorithm_id) :
        LET r == algorithm_factory_execute(g, g_n, adj, algorithm_id, al)
        IN  /\ Built
            /\ last' = [op |-> "algorithm_factory_execute",
                        ret |-> IF r.result.null THEN 0 ELSE 1,
                        null |-> (g = "NULL"), nomem |-> (al # StrategyOk),
                        out |-> <<algorithm_id, r.result, r.ran>>]
            /\ UNCHANGED <<notGraph, g_n, adj>>

KernelNext ==
    \/ GraphCreate
    \/ BuildEdge
    \/ FindEulerCircuit
    \/ MaxFlow
    \/ MstPrim
    \/ MaxClique
    \/ CountAllCliques
    \/ CountCliquesOfSize
    \/ FactoryExecute

KernelSpec == Init /\ [][KernelNext]_vars

(***************************************************************************)
(*          LEADER/FOLLOWER SERVER: THE REQUEST OF ONE CONNECTION          *)
(*                                                                         *)
(* process_client and the two request handlers it calls, for one accepted  *)
(* connection, a step at a time: the receive and the routing, the header   *)
(* of the request, the edge loop one triple at a time, and the call of the *)
(* factory with the response.  The graph of the request is (g_n, adj); the *)
(* ints of the payload are drawn when the code reads them.                 *)
(***************************************************************************)

\* sizeof(int)
IntSize == 4

\* if (n <= 0 || n > 20 || ...)
VertexCap == 20

\* The triples a weighted request carries at most here.
MaxTriples == 2

\* The n of the requests: none, those the graphs here have, one too many.
RequestN == {0} \cup (1..GraphN) \cup {VertexCap + 1}

\* A number of edges so large that 3 + num_edges * 3 is beyond an int.
ManyEdges == 715827883

\* The num_edges of the weighted requests
EdgeCounts == (-1..MaxTriples) \cup {ManyEdges}

\* The byte counts recv returns: an error, less than an int, and the sizes
\* at which a weighted or an unweighted request is whole or cut short.
ByteCounts ==
    {-1, 0, 2}
        \cup {IntSize * s : s \in 1..3}
        \cup {IntSize * (3 + 3 * k) : k \in 1..MaxTriples}
        \cup {IntSize * (1 + n * n) : n \in RequestN}
        \cup {IntSize * (2 + n * n) : n \in RequestN}

\* The response on the wire; sent is FALSE while none has been sent.  body
\* is the text that follows the two ints of the header, before its NUL.
NoResponse == [sent |-> FALSE, status |-> 0, length |-> 0, body |-> ""]
Response(status, length, body) ==
    [sent |-> TRUE, status |-> status, length |-> length, body |-> body]

\* A send_response that reports every result as a failure.
send_failure_only(result, bufferOk) ==
    [crash |-> FALSE, resp |-> Response(0, 0, "")]

\* send_response(client_fd, result); bufferOk: malloc(total_size) succeeds.
\* Its result is not tested: header[0] = 1 is a write through NULL if not.
send_response(result, bufferOk) ==
    IF result.null THEN [crash |-> FALSE, resp |-> Response(0, 0, "")]
    ELSE IF ~bufferOk THEN [crash |-> TRUE, resp |-> NoResponse]
    ELSE [crash |-> FALSE, resp |-> Response(1, Len(result.text), result.text)]

\* The socket after close(client_fd), and after a send_response that
\* reached its send followed by the close(client_fd) of process_client.
Close(fd) == [fd EXCEPT !.closed = @ + 1]
SendAndClose(fd) == [fd EXCEPT !.sent = @ + 1, !.closed = @ + 1]

\* The ints of the header that the code comes to read: no id in less than
\* an int, n only behind an id in 1..5, num_edges only in a weighted
\* request of three ints or more.
IdsIn(size) == IF size < 1 THEN {0} ELSE IdArgs
NsIn(size, algorithm_id) ==
    IF size < 2 \/ algorithm_id < 1 \/ algorithm_id > 5 THEN {0} ELSE RequestN
EdgeCountsIn(size, algorithm_id) ==
    IF size >= 3 /\ (algorithm_id = 2 \/ algorithm_id = 3) THEN EdgeCounts ELSE {0}

\* process_client(client_fd), up to the call of a request handler.
ProcessClient ==
    \E bytes \in ByteCounts :
        LET size == IF bytes <= 0 THEN 0 ELSE bytes \div IntSize
        IN  \E algorithm_id \in IdsIn(size) : \E n \in NsIn(size, algorithm_id) :
            \E num_edges \in EdgeCountsIn(size, algorithm_id) :
                /\ rpc = "recv"
                /\ req' = [bytes |-> bytes, size |-> size,
                           algorithm_id |-> algorithm_id, n |-> n,
                           num_edges |-> num_edges]
                /\ IF bytes <= 0
                       THEN /\ rpc' = "closed" /\ resp' = resp
                            /\ client_fd' = Close(client_fd)
                   ELSE IF size < 1 \/ algorithm_id < 1 \/ algorithm_id > 5
                       THEN /\ rpc' = "done"
                            /\ resp' = send_response(NullString, TRUE).resp
                            /\ client_fd' = SendAndClose(client_fd)
                   ELSE IF algorithm_id = 2 \/ algorithm_id = 3
                       THEN /\ rpc' = "process_weighted_request" /\ resp' = resp
                            /\ client_fd' = client_fd
                   ELSE /\ rpc' = "process_unweighted_request" /\ resp' = resp
                        /\ client_fd' = client_fd
                /\ UNCHANGED <<notRequest, graphVars, ri>>

\* num_edges * 3 is beyond INT_MAX: the product is not defined.
Overflows(num_edges) == num_edges > INT_MAX \div 3

\* The int of 32 bits whose upper half is hi and whose lower half is lo, the
\* carry out of lo taken into hi and the carry out of hi dropped.
Int32(hi, lo) ==
    LET l == lo % 65536
        h == (hi + lo \div 65536) % 65536
    IN  (IF h >= 32768 THEN h - 65536 ELSE h) * 65536 + l

\* 3 + num_edges * 3 in the arithmetic of a 32-bit int that wraps, for
\* num_edges >= 0
WrappedSum(num_edges) == Int32(3 * (num_edges \div 65536), 3 * (num_edges % 65536) + 3)

\* size < 3 + num_edges * 3, for num_edges >= 0: the outcomes of the test.
\* That of the wrapping arithmetic is one; when the product overflows the
\* other is as good.
PayloadTest(size, num_edges) ==
    {size < WrappedSum(num_edges)}
        \cup (IF Overflows(num_edges) THEN BOOLEAN ELSE {})

\* process_weighted_request, up to the edge loop: the tests of the header
\* and graph_create(n); ok: its mallocs succeed.
WeightedRequest ==
    \E short \in PayloadTest(req.size, req.num_edges), ok \in BOOLEAN :
        LET refused == \/ req.size < 3
                       \/ req.n <= 0 \/ req.n > VertexCap \/ req.num_edges < 0
                       \/ short
        IN  /\ rpc = "process_weighted_request"
            /\ IF refused \/ ~ok
                   THEN /\ rpc' = "done"
                        /\ resp' = send_response(NullString, TRUE).resp
                        /\ client_fd' = SendAndClose(client_fd)
                        /\ UNCHANGED graphVars
                   ELSE /\ rpc' = "edges"
                        /\ resp' = resp
                        /\ client_fd' = client_fd
                        /\ g_n' = req.n
                        /\ adj' = NoEdges
                        /\ last' = [op |-> "graph_create", ret |-> 0, null |-> FALSE,
                                    nomem |-> FALSE, out |-> <<>>]
            /\ UNCHANGED <<notRequest, req, ri>>

\* The manual update leaves the weights alone.
KeepWeights(a, src, dest, weight) == a

\* for (edge = g->adj[src].head; edge; edge = edge->next)
\*     if (edge->to == dest) edge->weight = weight;
\* and, if src != dest, the same over adj[dest] for src
UpdateWeights(a, src, dest, weight) ==
    [u \in DOMAIN a |->
        [i \in 1..Len(a[u]) |->
            IF \/ u = src /\ a[u][i].to = dest
               \/ src # dest /\ u = dest /\ a[u][i].to = src
                THEN EdgeNode(a[u][i].to, weight)
                ELSE a[u][i]]]

\* The ints of one triple: vertices in and out of range, weights zero and
\* positive.  The test of a triple stops at the first int that fails it,
\* and the mallocs matter only to an add that reaches them.
InRange(x, n) == x >= 0 /\ x < n
DestArgs(src, n) == IF InRange(src, n) THEN VertexArgs ELSE {0}
TripleWeights(src, dest, n) ==
    IF InRange(src, n) /\ InRange(dest, n) THEN Weights ELSE {1}
TripleMallocs(a, src, dest, weight, n) ==
    IF InRange(src, n) /\ InRange(dest, n) /\ weight > 0
           /\ ~edge_exists_simple(a, src, dest)
        THEN Mallocs ELSE {<<TRUE, TRUE>>}

\* One turn of the edge loop: triple i.  The triple lies in what was
\* received unless the test of the payload went wrong; then it is read from
\* what the buffer held before, and the loop runs on past the buffer's end
\* until a read faults.  last.out: the triple and the weight that
\* graph_get_edge_weight would have given before.
WeightedEdge ==
    /\ rpc = "edges"
    /\ ri < req.num_edges
    /\ \/ /\ ri >= MaxTriples
          /\ rpc' = "SIGSEGV"
          /\ UNCHANGED <<graphVars, ri>>
       \/ /\ ri < MaxTriples
          /\ \E src \in VertexArgs : \E dest \in DestArgs(src, req.n) :
             \E weight \in TripleWeights(src, dest, req.n) :
             \E m \in TripleMallocs(adj, src, dest, weight, req.n) :
                 LET r == graph_add_edge("g", adj, src, dest, m)
                 IN  /\ rpc' = rpc
                     /\ ri' = ri + 1
                     /\ g_n' = g_n
                     /\ IF src >= 0 /\ src < req.n /\ dest >= 0 /\ dest < req.n
                               /\ weight > 0
                            THEN /\ adj' = UpdateWeights(r.adj, src, dest, weight)
                                 /\ last' = [op |-> "graph_add_edge", ret |-> r.ret,
                                             null |-> FALSE, nomem |-> (r.ret = -2),
                                             out |-> <<src, dest, weight,
                                                       graph_get_edge_weight(
                                                           "g", adj, src, dest)>>]
                            ELSE /\ adj' = adj
                                 /\ last' = [op |-> "none", ret |-> 0, null |-> FALSE,
                                             nomem |-> FALSE,
                                             out |-> <<src, dest, weight, 0>>]
    /\ UNCHANGED <<notRequest, req, resp, client_fd>>

\* process_weighted_request after the loop: the factory, the response, and
\* the graph is destroyed.
WeightedExecute ==
    \E al \in StrategyAllocs("g", req.algorithm_id), bufferOk \in BOOLEAN :
        LET r == algorithm_factory_execute("g", g_n, adj, req.algorithm_id, al)
            s == send_response(r.result, bufferOk)
        IN  /\ rpc = "edges"
            /\ ri >= req.num_edges
            /\ r.result.null => bufferOk
            /\ rpc' = IF s.crash THEN "SIGSEGV" ELSE "done"
            /\ resp' = s.resp
            /\ client_fd' = IF s.crash THEN client_fd ELSE SendAndClose(client_fd)
            /\ last' = [op |-> "algorithm_factory_execute",
                        ret |-> IF r.result.null THEN 0 ELSE 1,
                        null |-> FALSE, nomem |-> (al # StrategyOk \/ ~bufferOk),
                        out |-> <<req.algorithm_id, r.result, r.ran>>]
            /\ UNCHANGED <<notRequest, g_n, adj, req, ri>>

\* The cells (i, j), j >= i, of the matrix that the loops look at.
UpperCells(n) == {c \in (0..(n - 1)) \X (0..(n - 1)) : c[2] >= c[1]}

\* for (i...) for (j = i...) if (data[2 + i * n + j] == 1) graph_add_edge(g, i, j),
\* from cell (i, j) on; ones: the cells that hold 1, failed: the cells whose
\* add finds no memory.
RECURSIVE BuildFromMatrix(_, _, _, _, _, _)
BuildFromMatrix(a, n, i, j, ones, failed) ==
    IF i >= n THEN a
    ELSE IF j >= n THEN BuildFromMatrix(a, n, i + 1, i + 1, ones, failed)
    ELSE BuildFromMatrix(
             IF <<i, j>> \in ones
                 THEN graph_add_edge("g", a, i, j,
                          IF <<i, j>> \in failed THEN <<FALSE, TRUE>>
                                                ELSE <<TRUE, TRUE>>).adj
                 ELSE a,
             n, i, j + 1, ones, failed)

\* process_unweighted_request, up to the call of the factory: the tests of
\* the header, graph_create(n) and the graph of the matrix.
UnweightedRequest ==
    \E ok \in BOOLEAN :
        LET refused == \/ req.size < 2
                       \/ req.n <= 0 \/ req.n > VertexCap
                       \/ req.size < 2 + req.n * req.n
        IN  /\ rpc = "process_unweighted_request"
            /\ IF refused \/ ~ok
                   THEN /\ rpc' = "done"
                        /\ resp' = send_response(NullString, TRUE).resp
                        /\ client_fd' = SendAndClose(client_fd)
                        /\ UNCHANGED graphVars
                   ELSE \E ones \in SUBSET UpperCells(req.n) :
                        \E failed \in {{}} \cup {{c} : c \in ones} :
                            /\ rpc' = "matrix"
                            /\ resp' = resp
                            /\ client_fd' = client_fd
                            /\ g_n' = req.n
                            /\ adj' = BuildFromMatrix(NoEdges, req.n, 0, 0, ones,
                                                      failed)
                            /\ last' = [op |-> "graph_add_edge", ret |-> 0,
                                        null |-> FALSE, nomem |-> (failed # {}),
                                        out |-> <<>>]
            /\ UNCHANGED <<notRequest, req, ri>>

\* process_unweighted_request after the loops: the factory, the response,
\* and the graph is destroyed.
UnweightedExecute ==
    \E al \in StrategyAllocs("g", req.algorithm_id), bufferOk \in BOOLEAN :
        LET r == algorithm_factory_execute("g", g_n, adj, req.algorithm_id, al)
            s == send_response(r.result, bufferOk)
        IN  /\ rpc = "matrix"
            /\ r.result.null => bufferOk
            /\ rpc' = IF s.crash THEN "SIGSEGV" ELSE "done"
            /\ resp' = s.resp
            /\ client_fd' = IF s.crash THEN client_fd ELSE SendAndClose(client_fd)
            /\ last' = [op |-> "algorithm_factory_execute",
                        ret |-> IF r.result.null THEN 0 ELSE 1,
                        null |-> FALSE, nomem |-> (al # StrategyOk \/ ~bufferOk),
                        out |-> <<req.algorithm_id, r.result, r.ran>>]
            /\ UNCHANGED <<notRequest, g_n, adj, req, ri>>

RequestNext ==
    \/ ProcessClient
    \/ WeightedRequest
    \/ WeightedEdge
    \/ WeightedExecute
    \/ UnweightedRequest
    \/ UnweightedExecute

RequestSpec == Init /\ [][RequestNext]_vars



(***************************************************************************)
(*              THE UNWEIGHTED GRAPH MODULE (part1/graph.c)                *)
(***************************************************************************)

\* The graph is that of graph_create(GraphN); a list holds the to of its
\* nodes, the head first.

p1_in_bounds(v) == v >= 0 /\ v < GraphN

p1_count_neighbor(a, u, v) == Cardinality({i \in 1..Len(a[u]) : a[u][i] = v})

p1_edge_exists_simple(a, u, v) ==
    IF u = v THEN p1_count_neighbor(a, u, u) >= 2
    ELSE p1_count_neighbor(a, u, v) >= 1

\* e1->to = v; e1->next = g->adj[u].head;
\* e2->to = u; e2->next = g->adj[v].head;
\* g->adj[u].head = e1; g->adj[v].head = e2;
\* With u = v both nodes point at the old head and the second store
\* replaces the first: e2 is the head and e1 is in no list.  [adj, lost]
p1_Link(a, u, v) ==
    IF u = v THEN [adj |-> [a EXCEPT ![u] = <<u>> \o a[u]], lost |-> 1]
    ELSE [adj |-> [a EXCEPT ![u] = <<v>> \o a[u], ![v] = <<u>> \o a[v]],
          lost |-> 0]

\* graph_add_edge(g, u, v) of part1; m: which of the two mallocs succeed.
p1_graph_add_edge(a, u, v, m) ==
    IF ~p1_in_bounds(u) \/ ~p1_in_bounds(v) THEN [ret |-> -1, adj |-> a, lost |-> 0]
    ELSE IF p1_edge_exists_simple(a, u, v) THEN [ret |-> -3, adj |-> a, lost |-> 0]
    ELSE IF ~m[1] \/ ~m[2] THEN [ret |-> -2, adj |-> a, lost |-> 0]
    ELSE LET l == p1_Link(a, u, v)
         IN  [ret |-> 0, adj |-> l.adj, lost |-> l.lost]

\* The mallocs matter only to a call that reaches them.
P1Mallocs(a, u, v) ==
    IF p1_in_bounds(u) /\ p1_in_bounds(v) /\ ~p1_edge_exists_simple(a, u, v)
        THEN Mallocs ELSE {<<TRUE, TRUE>>}

\* A call of graph_add_edge, as add_edge_and_report of demo.c makes them.
P1AddEdge ==
    \E u, v \in VertexArgs : \E m \in P1Mallocs(p1_adj, u, v) :
        LET r == p1_graph_add_edge(p1_adj, u, v, m)
        IN  /\ p1_adj' = r.adj
            /\ p1_last' = [op |-> "graph_add_edge", u |-> u, v |-> v,
                            ret |-> r.ret, lost |-> r.lost]
            /\ UNCHANGED <<pipeVars, lfVars, idVars, graphVars, reqVars, cntVars,
                           flowVars>>

Part1Next == P1AddEdge

Part1Spec == Init /\ [][Part1Next]_vars


(***************************************************************************)
(*        THE REQUEST COUNTER OF THE LEADER/FOLLOWER SERVER (server.c)     *)
(***************************************************************************)

\* The workers of the pool are looked at from accept to accept: a worker
\* takes a connection when it is the leader, hands the lead on and runs
\* process_client, at whose end total_requests++ reads the counter and
\* then writes it, no lock held.  The signal handler sets shutdown_flag;
\* the workers leave their loops when they next test it and main, having
\* joined them, prints the counter.

\* The connections the pool accepts.
MaxRequests == 3

\* The value total_requests++ writes for the one it read.
Incremented(x) == x + 1

\* worker_thread: the worker is the leader, accept returns a connection
\* and the lead goes to the next worker.
CounterAccept(w) ==
    /\ lf_shutdown_flag = 0
    /\ cpc[w] = "accept"
    /\ current_leader = w
    /\ routed + Cardinality({x \in 0..(THREAD_POOL_SIZE - 1) :
                                cpc[x] = "process_client"}) < MaxRequests
    /\ current_leader' = NextLeader(current_leader)
    /\ accepted' = (accepted + 1) % THREAD_POOL_SIZE
    /\ cpc' = [cpc EXCEPT ![w] = "process_client"]
    /\ UNCHANGED <<pipeVars, idVars, graphVars, reqVars, p1Vars, flowVars,
                   lf_shutdown_flag, leader_mutex, leader_cond, lpc, lhpc, lg, lheap,
                   total_requests, loaded, routed>>

\* process_client up to its last line: it returns early from a read that
\* failed and from a request without a valid id, and otherwise calls a
\* handler and closes the socket.
CounterProcess(w) ==
    \E handled \in BOOLEAN :
        /\ cpc[w] = "process_client"
        /\ cpc' = [cpc EXCEPT ![w] = IF handled THEN "total_requests++" ELSE "accept"]
        /\ routed' = IF handled THEN routed + 1 ELSE routed
        /\ UNCHANGED <<pipeVars, lfVars, idVars, graphVars, reqVars, p1Vars, flowVars,
                       total_requests, loaded>>

\* total_requests++: the read
CounterLoad(w) ==
    /\ cpc[w] = "total_requests++"
    /\ loaded' = [loaded EXCEPT ![w] = total_requests]
    /\ cpc' = [cpc EXCEPT ![w] = "store"]
    /\ UNCHANGED <<pipeVars, lfVars, idVars, graphVars, reqVars, p1Vars, flowVars,
                   total_requests, routed>>

\* total_requests++: the write
CounterStore(w) ==
    /\ cpc[w] = "store"
    /\ total_requests' = Incremented(loaded[w])
    /\ cpc' = [cpc EXCEPT ![w] = "accept"]
    /\ UNCHANGED <<pipeVars, lfVars, idVars, graphVars, reqVars, p1Vars, flowVars,
                   loaded, routed>>

\* signal_handler: shutdown_flag = 1
CounterSignal ==
    /\ lf_shutdown_flag = 0
    /\ lf_shutdown_flag' = 1
    /\ UNCHANGED <<pipeVars, idVars, graphVars, reqVars, p1Vars, flowVars, cntVars, accepted,
                   current_leader, leader_mutex, leader_cond, lpc, lhpc, lg, lheap>>

\* worker_thread: the loop ends at the test of shutdown_flag.
CounterExit(w) ==
    /\ lf_shutdown_flag = 1
    /\ cpc[w] = "accept"
    /\ cpc' = [cpc EXCEPT ![w] = "exited"]
    /\ UNCHANGED <<pipeVars, lfVars, idVars, graphVars, reqVars, p1Vars, flowVars,
                   total_requests, loaded, routed>>

\* main: every worker is joined; "Server stopped. Total requests: %d"
CounterStopped ==
    /\ cpc[THREAD_POOL_SIZE] = "pthread_join"
    /\ \A w \in 0..(THREAD_POOL_SIZE - 1) : cpc[w] = "exited"
    /\ cpc' = [cpc EXCEPT ![THREAD_POOL_SIZE] = "stopped"]
    /\ UNCHANGED <<pipeVars, lfVars, idVars, graphVars, reqVars, p1Vars, flowVars,
                   total_requests, loaded, routed>>

CounterNext ==
    \/ \E w \in 0..(THREAD_POOL_SIZE - 1) :
           \/ CounterAccept(w)
           \/ CounterProcess(w)
           \/ CounterLoad(w)
           \/ CounterStore(w)
           \/ CounterExit(w)
    \/ CounterSignal
    \/ CounterStopped

CounterSpec == Init /\ [][CounterNext]_vars

(***************************************************************************)
(*      THE PIPELINE SERVER, A CALL OF queue_push OR queue_pop AT A TIME   *)
(***************************************************************************)

\* The pipeline under load and with no shutdown: each action is a whole
\* call.  queue_push returns once the queue has room and queue_pop once it
\* holds a job (their wait loops, with shutdown_flag 0); a stage worker
\* pops a job, runs its kernel, which returns, and pushes the job on the
\* next queue, where stage 4 sends the response, closes and frees instead.
\* A job is numbered by its place among the pushes on stage1_queue.

\* The connections that arrive.
MaxBacklog == 13

\* A fault of queue_pop: it returns a job only from a full queue.
QueueFull(q) == Len(stage_queue[q]) = MAX_QUEUE

\* queue_pop leaves while (q->count == 0 && !shutdown_flag)
QueueHasJob(q) == Len(stage_queue[q]) > 0

\* queue_push leaves while (q->count == MAX_QUEUE && !shutdown_flag)
QueueHasRoom(q) == Len(stage_queue[q]) < MAX_QUEUE

\* main accepts a connection and starts handle_client_request on it, which
\* receives a request, builds its graph and allocates its job.
Arrive ==
    /\ entered + handlers < MaxBacklog
    /\ handlers' = handlers + 1
    /\ UNCHANGED <<pipeVars, lfVars, idVars, graphVars, reqVars, p1Vars, cntVars,
                   stage_queue, stage_job, entered, answered>>

\* handle_client_request: queue_push(&stage1_queue, job)
HandlerPush ==
    /\ handlers > 0
    /\ QueueHasRoom(1)
    /\ handlers' = handlers - 1
    /\ entered' = entered + 1
    /\ stage_queue' = [stage_queue EXCEPT ![1] = Append(@, entered + 1)]
    /\ UNCHANGED <<pipeVars, lfVars, idVars, graphVars, reqVars, p1Vars, cntVars,
                   stage_job, answered>>

\* stage worker t: Job* job = queue_pop(&stage<t>_queue)
StagePop(t) ==
    /\ stage_job[t] = 0
    /\ QueueHasJob(t)
    /\ stage_job' = [stage_job EXCEPT ![t] = Head(stage_queue[t])]
    /\ stage_queue' = [stage_queue EXCEPT ![t] = Tail(@)]
    /\ UNCHANGED <<pipeVars, lfVars, idVars, graphVars, reqVars, p1Vars, cntVars,
                   handlers, entered, answered>>

\* stage workers 1 to 3: the kernel, then queue_push on the next queue
StageForward(t) ==
    /\ t < NUM_STAGES
    /\ stage_job[t] # 0
    /\ QueueHasRoom(t + 1)
    /\ stage_queue' = [stage_queue EXCEPT ![t + 1] = Append(@, stage_job[t])]
    /\ stage_job' = [stage_job EXCEPT ![t] = 0]
    /\ UNCHANGED <<pipeVars, lfVars, idVars, graphVars, reqVars, p1Vars, cntVars,
                   handlers, entered, answered>>

\* stage worker 4: the kernel, then send, close and free; no queue_push
StageRespond ==
    /\ stage_job[NUM_STAGES] # 0
    /\ answered' = answered \cup {stage_job[NUM_STAGES]}
    /\ stage_job' = [stage_job EXCEPT ![NUM_STAGES] = 0]
    /\ UNCHANGED <<pipeVars, lfVars, idVars, graphVars, reqVars, p1Vars, cntVars,
                   stage_queue, handlers, entered>>

\* One turn of stage worker t.
StageStep(t) ==
    \/ StagePop(t)
    \/ StageForward(t)
    \/ (t = NUM_STAGES /\ StageRespond)

FlowNext ==
    \/ Arrive
    \/ HandlerPush
    \/ \E t \in Stages : StageStep(t)

\* Fair scheduling: a thread that can go on taking its next step is
\* eventually scheduled to take it.  Nothing is assumed of the clients: a
\* connection may never come.
FlowSpec ==
    /\ Init /\ [][FlowNext]_vars
    /\ WF_vars(HandlerPush)
    /\ \A t \in Stages : WF_vars(StageStep(t))


(***************************************************************************)
(*                   PROPERTIES OF THE GRAPH MODULE                        *)
(***************************************************************************)

AddOps == {"graph_add_edge", "graph_add_weighted_edge"}

\* The weights of the entries for v in u's list.
WeightsTo(a, u, v) == {a[u][i].weight : i \in {j \in 1..Len(a[u]) : a[u][j].to = v}}

\* C15. Graph edge representation: for all u # v, adj[u] holds no entry or
\* exactly one entry pointing to v, adj[v] holds as many pointing to u, and
\* the two carry the same weight.
C15_EdgeRepresentation ==
    \A u, v \in GraphVertices :
        u # v => /\ count_neighbor(adj, u, v) \in {0, 1}
                 /\ count_neighbor(adj, v, u) = count_neighbor(adj, u, v)
                 /\ WeightsTo(adj, u, v) = WeightsTo(adj, v, u)

\* C15 witness: the graph is full of regular edges, put there by adds of
\* both kinds, and a further add has just been turned down.
C15_Witness ==
    /\ NumEdges(adj) = MaxEdges
    /\ \A u \in GraphVertices : count_neighbor(adj, u, u) = 0
    /\ \E u, v \in GraphVertices : WeightsTo(adj, u, v) = {2}
    /\ \E u, v \in GraphVertices : WeightsTo(adj, u, v) = {1}
    /\ last.op \in AddOps /\ last.ret = -3

\* C16. Self-loop invariant: for every vertex u, adj[u] holds no entry or
\* exactly two entries pointing to u, of one weight, and once they exist
\* every further add of (u,u), of either kind and any weight, returns -3.
C16_SelfLoops ==
    \A u \in GraphVertices :
        /\ count_neighbor(adj, u, u) \in {0, 2}
        /\ Cardinality(WeightsTo(adj, u, u)) <= 1
        /\ count_neighbor(adj, u, u) = 2
              => \A m \in Mallocs :
                    /\ graph_add_edge("g", adj, u, u, m).ret = -3
                    /\ \A weight \in Weights :
                          graph_add_weighted_edge("g", adj, u, u, weight, m).ret = -3

\* C16 witness: the graph holds one edge, a self-loop, and the add that
\* tried to put it there again has returned -3.
C16_Witness ==
    /\ NumEdges(adj) = 1
    /\ \E u \in GraphVertices : count_neighbor(adj, u, u) = 2
    /\ last.op \in AddOps /\ last.ret = -3

\* C17. Add-then-query: when graph_add_edge(g,u,v) with u # v returns ok,
\* graph_get_edge_weight gives one positive weight for (u,v) and (v,u); that
\* weight stays, and from then on every add of (u,v) or (v,u), of either
\* kind and with any weight, returns duplicate (-3).
C17_AddThenQuery ==
    /\ [][(last'.op = "graph_add_edge" /\ last'.ret = 0 /\ adj' # adj)
            => \A u, v \in GraphVertices :
                  (u # v /\ count_neighbor(adj', u, v) > count_neighbor(adj, u, v))
                     => /\ graph_get_edge_weight("g", adj', u, v) > 0
                        /\ graph_get_edge_weight("g", adj', u, v)
                              = graph_get_edge_weight("g", adj', v, u)]_vars
    /\ [][\A u, v \in GraphVertices :
            (u # v /\ count_neighbor(adj, u, v) >= 1)
               => /\ graph_get_edge_weight("g", adj', u, v)
                        = graph_get_edge_weight("g", adj, u, v)
                  /\ count_neighbor(adj', u, v) >= 1]_vars
    /\ [](\A u, v \in GraphVertices :
            (u # v /\ count_neighbor(adj, u, v) >= 1)
               => \A m \in Mallocs :
                     /\ graph_add_edge("g", adj, u, v, m).ret = -3
                     /\ graph_add_edge("g", adj, v, u, m).ret = -3
                     /\ \A weight \in Weights :
                          /\ graph_add_weighted_edge("g", adj, u, v, weight, m).ret = -3
                          /\ graph_add_weighted_edge("g", adj, v, u, weight, m).ret = -3)

\* C17 witness: the graph holds one edge, a regular one of weight 1, and
\* graph_add_edge has just returned duplicate.
C17_Witness ==
    /\ NumEdges(adj) = 1
    /\ \E u, v \in GraphVertices : u # v /\ WeightsTo(adj, u, v) = {1}
    /\ last.op = "graph_add_edge" /\ last.ret = -3

\* C18. Failed add leaves the graph unchanged: a call of an add that returns
\* a failure (-1, -2 or -3, and nothing else) leaves every adjacency list
\* and every weight as it was.
C18_FailedAddFrame ==
    [][(last'.op \in AddOps /\ last'.ret # 0)
          => /\ adj' = adj
             /\ last'.ret \in {-1, -2, -3}]_vars

\* C18 witness: on a graph that has edges, an add has failed for want of
\* memory.
C18_Witness ==
    /\ NumEdges(adj) >= 1
    /\ last.op \in AddOps /\ last.ret = -2

\* C19. Positive weights: every adjacency entry carries a weight >= 1.
C19_PositiveWeights ==
    \A u \in GraphVertices : \A i \in 1..Len(adj[u]) : adj[u][i].weight >= 1

\* An Euler circuit exists: there is an edge, every vertex has even degree
\* (a self-loop counting 2), and the vertices that have edges are connected.
Neighbours(a, u) == {a[u][i].to : i \in 1..Len(a[u])}
RECURSIVE Reach(_, _)
Reach(a, S) ==
    LET T == S \cup UNION {Neighbours(a, u) : u \in S}
    IN  IF T = S THEN S ELSE Reach(a, T)
Degree(a, u) ==
    Cardinality(Neighbours(a, u) \ {u}) + (IF u \in Neighbours(a, u) THEN 2 ELSE 0)
Eulerian(a) ==
    /\ \E u \in GraphVertices : Neighbours(a, u) # {}
    /\ \A u \in GraphVertices : Degree(a, u) % 2 = 0
    /\ \A u, v \in GraphVertices :
          (Neighbours(a, u) # {} /\ Neighbours(a, v) # {}) => v \in Reach(a, {u})

\* C20. Euler existence test: graph_has_euler_circuit on a graph
\* built by the adds returns 1 if and only if an Euler circuit exists.
C20_EulerIff ==
    (last.op = "graph_has_euler_circuit" /\ ~last.null)
        => (last.ret = 1 <=> Eulerian(adj))

\* What the test does get right: it returns 0 or 1, it returns 1 only if an
\* Euler circuit exists, and it returns 1 whenever one exists and no
\* allocation of its connectivity search failed.
EulerTestRightUnlessNoMemory ==
    (last.op = "graph_has_euler_circuit" /\ ~last.null)
        => /\ last.ret \in {0, 1}
           /\ last.ret = 1 => Eulerian(adj)
           /\ (Eulerian(adj) /\ ~last.nomem) => last.ret = 1

(***************************************************************************)
(*                   PROPERTIES OF THE ALGORITHM KERNELS                   *)
(***************************************************************************)

\* The undirected edges of the graph, a self-loop {u} once.
EdgeSet(a) == {{u, v} : u \in GraphVertices, v \in GraphVertices} \cap
              UNION {{{u, v} : v \in Neighbours(a, u)} : u \in GraphVertices}

\* The sequence is a closed walk along edges of the graph that takes no
\* edge twice.
ClosedTrail(a, c) ==
    /\ Len(c) >= 1
    /\ c[1] = c[Len(c)]
    /\ \A i \in 1..(Len(c) - 1) : {c[i], c[i + 1]} \in EdgeSet(a)
    /\ \A i, j \in 1..(Len(c) - 1) : i # j => {c[i], c[i + 1]} # {c[j], c[j + 1]}

\* C21. Euler circuit validity: whenever graph_find_euler_circuit returns 1
\* on a graph of m undirected edges, the returned sequence has length m+1,
\* starts and ends at one vertex, walks along edges of the graph and takes
\* every undirected edge (a self-loop once) exactly once.
C21_CircuitValid ==
    (last.op = "graph_find_euler_circuit" /\ last.ret = 1)
        => /\ Len(last.out) = NumEdges(adj) + 1
           /\ ClosedTrail(adj, last.out)

\* What the search does get right: with no allocation failing it returns 1
\* exactly on the graphs that have an Euler circuit, and the sequence it
\* returns is one.
FindEulerRightUnlessNoMemory ==
    (last.op = "graph_find_euler_circuit" /\ ~last.null /\ ~last.nomem)
        => /\ last.ret = 1 <=> Eulerian(adj)
           /\ last.ret = 1 => /\ Len(last.out) = NumEdges(adj) + 1
                              /\ ClosedTrail(adj, last.out)

\* The capacity of the undirected edge {u, v}: its weight, 0 if there is
\* none or u = v.
Capacity(a, u, v) ==
    IF u # v /\ WeightsTo(a, u, v) # {} THEN CHOOSE w \in WeightsTo(a, u, v) : TRUE
    ELSE 0

RECURSIVE SumOver(_, _)
SumOver(S, f) ==
    IF S = {} THEN 0
    ELSE LET x == CHOOSE y \in S : TRUE IN f[x] + SumOver(S \ {x}, f)

\* The capacity of the cut that has S on the source's side.
CutCapacity(n, a, S) ==
    LET P == {p \in (0..(n - 1)) \X (0..(n - 1)) : p[1] \in S /\ p[2] \notin S}
    IN  SumOver(P, [p \in P |-> Capacity(a, p[1], p[2])])

MinCut(n, a, source, sink) ==
    Min({CutCapacity(n, a, S) :
            S \in {T \in SUBSET (0..(n - 1)) : source \in T /\ sink \notin T}})

PositiveWeights(a) ==
    \A u \in GraphVertices : \A i \in 1..Len(a[u]) : a[u][i].weight >= 1

\* C22. Max flow equals min cut: on a graph with positive weights and a
\* valid pair source # sink, the value graph_max_flow returns is >= 0 and is
\* the least capacity of a cut between source and sink, each undirected
\* edge having its weight as capacity both ways and self-loops none.
C22_MaxFlowIsMinCut ==
    (last.op = "graph_max_flow" /\ last.ret = 1 /\ PositiveWeights(adj))
        => /\ last.out[3] >= 0
           /\ last.out[3] = MinCut(g_n, adj, last.out[1], last.out[2])

\* What graph_max_flow does get right: the calls it refuses are those with a
\* NULL graph or an invalid pair (and those that cannot allocate), and with
\* no allocation failing the value is the least cut.
MaxFlowRightUnlessNoMemory ==
    (last.op = "graph_max_flow" /\ ~last.nomem)
        => LET source == last.out[1]
               sink   == last.out[2]
               valid  == /\ ~last.null /\ source # sink
                         /\ source \in 0..(g_n - 1) /\ sink \in 0..(g_n - 1)
           IN  /\ last.ret = 1 <=> valid
               /\ (last.ret = 1 /\ PositiveWeights(adj))
                     => last.out[3] = MinCut(g_n, adj, source, sink)

\* The regular edges of the graph, and whether a set of them joins all of
\* the n vertices.
RegularEdges(a) == {e \in EdgeSet(a) : Cardinality(e) = 2}
RECURSIVE ReachBy(_, _)
ReachBy(T, S) ==
    LET N == S \cup UNION {e \in T : e \cap S # {}}
    IN  IF N = S THEN S ELSE ReachBy(T, N)
Spans(n, T) == ReachBy(T, {0}) = 0..(n - 1)
GraphConnected(n, a) == Spans(n, RegularEdges(a))

\* The spanning trees of the graph, and the weight of one.
SpanningTrees(n, a) ==
    {T \in SUBSET RegularEdges(a) : Cardinality(T) = n - 1 /\ Spans(n, T)}
TreeWeight(a, T) ==
    SumOver(T, [e \in T |-> LET u == Min(e) IN Capacity(a, u, CHOOSE v \in e : v # u)])

\* The kernels are given the graphs the servers build, whose weights are
\* positive (server.c:75, server_pipeline.c:316).
MstReported ==
    last.op = "graph_mst_prim" /\ last.ret = 1 /\ PositiveWeights(adj)

IsClique(a, S) == \A u, v \in S : u # v => {u, v} \in EdgeSet(a)
Cliques(n, a, k) ==
    {S \in SUBSET (0..(n - 1)) : Cardinality(S) = k /\ IsClique(a, S)}

\* C25. Max clique agrees with clique counting: the size graph_max_clique
\* returns is the largest k in 1..n for which graph_count_cliques_of_size
\* gives a count > 0, and the vertices it returns are pairwise adjacent.
C25_MaxCliqueAgrees ==
    (last.op = "graph_max_clique" /\ last.ret = 1)
        => LET K == {k \in 1..g_n :
                        graph_count_cliques_of_size("g", g_n, adj, k, "ok").out[1] > 0}
               V == {last.out.vertices[i] : i \in 1..Len(last.out.vertices)}
           IN  /\ last.out.size \in K
               /\ \A k \in K : k <= last.out.size
               /\ Cardinality(V) = last.out.size
               /\ V \subseteq 0..(g_n - 1)
               /\ IsClique(adj, V)

\* C25 witness: a clique of two has been returned on a graph of three
\* vertices and two edges, which has no clique of three.
C25_Witness ==
    /\ last.op = "graph_max_clique" /\ last.ret = 1
    /\ last.out.size = 2
    /\ g_n = 3 /\ Cardinality(RegularEdges(adj)) = 2

\* C26. Clique count consistency: in a result of graph_count_all_cliques,
\* total_cliques is the sum of counts_by_size[k] over k = 1..n, max_size is
\* the largest k with counts_by_size[k] > 0, and counts_by_size[k] is the
\* number of pairwise adjacent sets of k vertices.
C26_CliqueCounts ==
    (last.op = "graph_count_all_cliques" /\ last.ret = 1)
        => LET c == last.out.counts_by_size
           IN  /\ last.out.total_cliques = SumOver(1..g_n, c)
               /\ c[last.out.max_size] > 0
               /\ \A k \in 1..g_n : c[k] > 0 => k <= last.out.max_size
               /\ \A k \in 1..g_n : c[k] = Cardinality(Cliques(g_n, adj, k))

\* C26 witness: the cliques of a triangle have been counted, seven of them.
C26_Witness ==
    /\ last.op = "graph_count_all_cliques" /\ last.ret = 1
    /\ last.out.total_cliques = 7
    /\ last.out.max_size = 3

(***************************************************************************)
(*                    PROPERTIES OF THE FACTORY                            *)
(***************************************************************************)

FactoryCalled == last.op = "algorithm_factory_execute"
ValidIds == 1..5

\* 1 Euler, 2 MaxFlow, 3 MST, 4 MaxClique, 5 CliqueCount
StrategyOfId ==
    <<"euler_strategy_execute", "maxflow_strategy_execute", "mst_strategy_execute",
      "maxclique_strategy_execute", "cliquecount_strategy_execute">>

\* C29 as the specification states it: algorithm_factory_execute returns a
\* non-NULL error string and runs no kernel for every id outside 1..5, runs
\* for an id in 1..5 the registered strategy of that id, and returns NULL
\* only when that strategy returns NULL or the graph is NULL.
C29_FactoryDispatch ==
    FactoryCalled =>
        LET algorithm_id == last.out[1]
            result       == last.out[2]
            ran          == last.out[3]
        IN  /\ algorithm_id \notin ValidIds => ~result.null /\ ran = "NULL"
            /\ algorithm_id \in ValidIds /\ ~last.null =>
                   \E i \in 1..Len(strategies) :
                       strategies[i].id = algorithm_id /\ ran = strategies[i].execute
            /\ result.null => last.null \/ ran # "NULL"

\* C29, corrected: for an id outside 1..5 algorithm_factory_execute runs no
\* kernel and returns the text "Factory Error: Invalid algorithm ID <id>",
\* or NULL if the 64 bytes for that text cannot be allocated; for an id in
\* 1..5 and a graph it runs the registered strategy of that id, and for a
\* NULL graph none; it returns NULL only when the strategy it ran returns
\* NULL, the graph is NULL, or the error text could not be allocated.
C29_FactoryDispatchOrNoMemory ==
    FactoryCalled =>
        LET algorithm_id == last.out[1]
            result       == last.out[2]
            ran          == last.out[3]
        IN  /\ algorithm_id \notin ValidIds =>
                   /\ ran = "NULL"
                   /\ result.null <=> last.nomem
                   /\ ~result.null =>
                          result.text = "Factory Error: Invalid algorithm ID "
                                            \o Dec(algorithm_id)
            /\ algorithm_id \in ValidIds /\ ~last.null =>
                   /\ \E i \in 1..Len(strategies) :
                          strategies[i].id = algorithm_id /\ ran = strategies[i].execute
                   /\ ran = StrategyOfId[algorithm_id]
            /\ algorithm_id \in ValidIds /\ last.null =>
                   ran = "NULL" /\ result.null
            /\ result.null =>
                   \/ algorithm_id \in ValidIds /\ last.null
                   \/ ran # "NULL"
                   \/ algorithm_id \notin ValidIds /\ last.nomem

\* An id outside 1..5 whose error text found no memory: NULL comes back.
C29_Witness ==
    /\ FactoryCalled
    /\ last.out[1] \notin ValidIds
    /\ last.out[2].null
    /\ last.out[3] = "NULL"

(***************************************************************************)
(*          PROPERTIES OF THE LEADER/FOLLOWER REQUEST HANDLING             *)
(***************************************************************************)

Weighted(r) == r.algorithm_id = 2 \/ r.algorithm_id = 3

\* A request that was received and is invalid: its id is outside 1..5, its
\* n is outside [1,20], or it has fewer ints than its header and its edge
\* list (weighted) or its matrix (unweighted) take.
InvalidRequest(r) ==
    /\ r.bytes > 0
    /\ \/ r.size < 1
       \/ r.algorithm_id \notin ValidIds
       \/ r.size < 2
       \/ r.n < 1 \/ r.n > 20
       \/ Weighted(r) /\ (r.size < 3 \/ r.num_edges > (r.size - 3) \div 3)
       \/ ~Weighted(r) /\ r.size < 2 + r.n * r.n

\* The response status=0, length=0 and nothing after it.
Refusal == [sent |-> TRUE, status |-> 0, length |-> 0, body |-> ""]

\* The request is refused, or is still on its way to being refused: no
\* graph has been made for it and no algorithm has been called.
RefusedOrPending ==
    \/ rpc \in {"process_weighted_request", "process_unweighted_request"}
    \/ rpc = "done" /\ resp = Refusal /\ last.op = "graph_create"

\* C27. Leader/follower invalid request: for every received request whose
\* algorithm id is outside 1..5, whose n is outside [1,20], or whose payload
\* is shorter than the declared edge list (weighted) or the n*n matrix
\* (unweighted), the server sends exactly status=0, length=0 and runs no
\* algorithm.
C27_InvalidRefused == InvalidRequest(req) => RefusedOrPending

\* The same of the requests whose num_edges * 3 is within an int: these
\* the server does refuse.
InvalidRefusedUnlessOverflow ==
    InvalidRequest(req) /\ ~Overflows(req.num_edges) => RefusedOrPending

\* The factory was called for the request and a response was sent.
Answered == rpc = "done" /\ last.op = "algorithm_factory_execute"

\* The well-formed requests on which the selected kernel fails: no Euler
\* circuit, a flow asked of fewer than two vertices, a spanning tree asked
\* of a graph that is not connected.
KernelFailsOn(algorithm_id, n, a) ==
    \/ algorithm_id = 1 /\ ~Eulerian(a)
    \/ algorithm_id = 2 /\ n < 2
    \/ algorithm_id = 3 /\ ~GraphConnected(n, a)

\* What the strategies write when their kernel fails.
FailureTexts ==
    {"No Euler circuit exists", "Euler circuit exists but extraction failed",
     "Max flow calculation failed", "MST calculation failed (graph not connected)",
     "MST calculation failed", "Max clique calculation failed",
     "Clique counting failed"}

\* C28 as the specification states it: when the selected kernel fails on a
\* well-formed request, the server responds with status=0, length=0.
C28_KernelFailureRefused ==
    Answered /\ KernelFailsOn(req.algorithm_id, g_n, adj) => resp = Refusal

\* C28, corrected: when the selected kernel fails on a well-formed request,
\* the response the server sends is status=1, the length of the failure
\* text of the strategy, and that text; it is status=0, length=0 only when
\* the strategy returned NULL, which it does only for want of memory.  In
\* every case the response sent carries status=1 and the text exactly when
\* the factory returned one.
C28_KernelFailureIsText ==
    Answered =>
        LET result == last.out[2]
        IN  /\ resp = IF result.null THEN Refusal
                      ELSE Response(1, Len(result.text), result.text)
            /\ result.null => last.nomem
            /\ KernelFailsOn(req.algorithm_id, g_n, adj) /\ ~result.null =>
                   /\ result.text \in FailureTexts
                   /\ resp.status = 1
                   /\ resp.length = Len(result.text) /\ resp.length > 0
                   /\ resp.body = result.text

\* An MST request for a graph that is not connected, answered with status=1
\* and the text of the failure.
C28_Witness ==
    /\ Answered
    /\ req.algorithm_id = 3
    /\ ~GraphConnected(g_n, adj)
    /\ resp = Response(1, 44, "MST calculation failed (graph not connected)")

\* A turn of the edge loop whose triple passed the test and whose
\* graph_add_edge returned -3.
DuplicateTurn ==
    /\ rpc = "edges" /\ ri' = ri + 1
    /\ last'.op = "graph_add_edge" /\ last'.ret = -3

\* C30 as the specification states it: when graph_add_edge rejects a triple
\* (u,v,w) as duplicate, the weight scan that follows changes no adjacency
\* entry, so the weight of the edge {u,v} stays what the first triple set.
C30_DuplicateInert == [][DuplicateTurn => adj' = adj]_vars

\* C30, corrected: when graph_add_edge rejects a triple (u,v,w) as
\* duplicate, the weight scan that follows sets to w the weight of every
\* entry of the edge {u,v}, in u's list and in v's, and changes nothing
\* else: the edge ends with the weight of the last triple that names it.
C30_DuplicateRewritesWeight ==
    [][DuplicateTurn =>
          LET u == last'.out[1]
              v == last'.out[2]
              w == last'.out[3]
          IN  /\ WeightsTo(adj', u, v) = {w}
              /\ WeightsTo(adj', v, u) = {w}
              /\ \A x \in DOMAIN adj :
                     /\ Len(adj'[x]) = Len(adj[x])
                     /\ \A i \in 1..Len(adj[x]) :
                            /\ adj'[x][i].to = adj[x][i].to
                            /\ {x, adj[x][i].to} # {u, v} =>
                                   adj'[x][i].weight = adj[x][i].weight]_vars

\* The triple (0,1,2) after a triple that gave the edge {0,1} weight 1: the
\* add was rejected and the edge has weight 2 at both ends.
C30_Witness ==
    /\ rpc = "edges"
    /\ last.op = "graph_add_edge" /\ last.ret = -3
    /\ last.out = <<0, 1, 2, 1>>
    /\ WeightsTo(adj, 0, 1) = {2}
    /\ WeightsTo(adj, 1, 0) = {2}

\* C38. Weighted request bounds: for every num_edges of a received weighted
\* request, process_weighted_request reads edge triples only at indices
\* below the number of ints received: the test size < 3 + num_edges * 3,
\* in 32-bit arithmetic that wraps, has refused every request whose edge
\* list is longer than what was received.
C38_ReadsWithinReceived ==
    rpc = "edges" =>
        \A i \in 0..(MaxTriples - 1) :
            i < req.num_edges => 3 + i * 3 + 2 < req.size

\* The same of the requests whose num_edges * 3 is within an int.
ReadsWithinReceivedUnlessOverflow ==
    rpc = "edges" /\ ~Overflows(req.num_edges) =>
        \A i \in 0..(MaxTriples - 1) :
            i < req.num_edges => 3 + i * 3 + 2 < req.size

\* C33. Per-connection protocol of the leader/follower server: on every
\* path of process_client the worker closes the accepted socket exactly
\* once, sends exactly one response if the read returned at least one byte
\* and none if it failed or returned end-of-file, and then goes on with its
\* loop.
C33_OneCloseOneResponse ==
    /\ rpc # "SIGSEGV"
    /\ client_fd.closed <= 1 /\ client_fd.sent <= 1
    /\ rpc \in {"done", "closed"} =>
           /\ client_fd.closed = 1
           /\ client_fd.sent = IF req.bytes > 0 THEN 1 ELSE 0

\* The same of the paths that return to worker_thread.
OneCloseOneResponseOnReturn ==
    /\ client_fd.closed <= 1 /\ client_fd.sent <= 1
    /\ rpc \in {"done", "closed"} =>
           /\ client_fd.closed = 1
           /\ client_fd.sent = IF req.bytes > 0 THEN 1 ELSE 0
    /\ rpc \notin {"done", "closed"} => client_fd.closed = 0 /\ client_fd.sent = 0

(***************************************************************************)
(*                 PROPERTIES OF THE EDMONDS-KARP LOOP                     *)
(***************************************************************************)

\* A call of graph_max_flow that got to its main loop; of it, the matrix as
\* built, the turns of the loop and all the matrices in order.
FlowRan == last.op = "graph_max_flow" /\ last.ret = 1
ResBuilt == last.out[4]
Turns == last.out[5]
Residuals == <<ResBuilt>> \o [i \in 1..Len(Turns) |-> Turns[i].res_graph]

SourceCapacity == SumOver(0..(g_n - 1), [v \in 0..(g_n - 1) |-> ResBuilt[last.out[1]][v]])

\* The vertices that cells > 0 of the matrix lead to from those of S.
RECURSIVE ReachedFrom(_, _)
ReachedFrom(res, S) ==
    LET T == S \cup {v \in DOMAIN res : \E u \in S : res[u][v] > 0}
    IN  IF T = S THEN S ELSE ReachedFrom(res, T)

\* A call of graph_max_flow on a graph with positive weights and a valid
\* pair source # sink.
FlowCalled ==
    /\ last.op = "graph_max_flow" /\ ~last.null
    /\ last.out[1] \in 0..(g_n - 1) /\ last.out[2] \in 0..(g_n - 1)
    /\ last.out[1] # last.out[2]
    /\ PositiveWeights(adj)

LoopAdded ==
    p1_last.op = "graph_add_edge" /\ p1_last.u = p1_last.v /\ p1_last.ret = 0

\* C39. Self-loop in the unweighted graph module: a graph_add_edge(g, u, u)
\* that succeeds links two u->u entries into adj[u], so that the next
\* graph_add_edge(g, u, u) returns -3 and no vertex gets more than one
\* self-loop.
C39_SelfLoopTwoEntries ==
    LoopAdded =>
        /\ p1_count_neighbor(p1_adj, p1_last.u, p1_last.u) = 2
        /\ p1_edge_exists_simple(p1_adj, p1_last.u, p1_last.u)
        /\ p1_graph_add_edge(p1_adj, p1_last.u, p1_last.u, <<TRUE, TRUE>>).ret = -3

\* What the module does: every successful add of u--u links one entry and
\* loses a node, and it is the second that brings the list to two entries.
SelfLoopOneEntry ==
    /\ \A u \in 0..(GraphN - 1) : p1_count_neighbor(p1_adj, u, u) <= 2
    /\ LoopAdded =>
           /\ p1_last.lost = 1
           /\ p1_count_neighbor(p1_adj, p1_last.u, p1_last.u) \in {1, 2}

\* C36. Request counter: total_requests, incremented with no lock held at
\* the end of process_client by workers that run at the same time, equals
\* the number of requests routed to a handler when the server stops: no
\* increment is lost, whatever the interleaving.
C36_NoLostIncrement ==
    cpc[THREAD_POOL_SIZE] = "stopped" => total_requests = routed

\* What holds of the counter: it never exceeds the requests routed, and it
\* counts them all when no two increments overlap.
CounterAtMostRouted ==
    /\ total_requests <= routed
    /\ cpc[THREAD_POOL_SIZE] = "stopped" /\ routed > 0 => total_requests >= 1

\* C32. Leader promotion: current_leader is always in 0..3 and changes only
\* by +1 modulo 4, under leader_mutex, by the worker that has just come
\* back from accept with a connection and before it processes it; an
\* accept that fails leaves current_leader as it is.  So the k-th
\* connection accepted (k from 0) is accepted by worker k mod 4.
C32_LeaderRotation ==
    /\ [](current_leader \in 0..(THREAD_POOL_SIZE - 1))
    /\ [][/\ current_leader' # current_leader =>
               /\ current_leader' = (current_leader + 1) % THREAD_POOL_SIZE
               /\ leader_mutex = -1 /\ leader_mutex' = -1
               /\ \E w \in Workers :
                      /\ lpc[w] = "promote" /\ lpc'[w] = "process"
                      /\ \A x \in Workers \ {w} : lpc'[x] # "process" \/ lpc[x] = "process"
           /\ \A w \in Workers :
                  /\ (lpc[w] = "accept" /\ lpc'[w] = "loop")
                         => current_leader' = current_leader
                  /\ (lpc[w] = "accept" /\ lpc'[w] = "promote")
                         => w = accepted /\ current_leader' = current_leader
                  /\ (lpc[w] = "promote" /\ lpc'[w] # "promote")
                         => lpc'[w] = "process" /\ current_leader' # current_leader
          ]_vars

\* The lead has gone round the pool: worker 0 has accepted the fifth
\* connection while another worker still processes an earlier one.
C32_Witness ==
    /\ accepted = 1
    /\ current_leader = 0
    /\ lpc[0] = "promote"
    /\ \E w \in Workers \ {0} : lpc[w] \in {"process", "execute"}

(***************************************************************************)
(*              PROPERTIES OF THE PIPELINE: KERNEL FAILURES                *)
(***************************************************************************)

\* The result string of stage k is written in job J.
ResultSet(k, J) ==
    CASE k = 1 -> J.mst_result
      [] k = 2 -> J.maxflow_result
      [] k = 3 -> J.maxclique_result
      [] OTHER -> J.cliquecount_result

\* C31. A kernel failure is not fatal to a job: absent shutdown, every job
\* a stage k = 1..3 has popped leaves the worker only into the queue of
\* stage k+1, with the result string of stage k written, whatever the
\* kernel returned; and every job stage 4 has popped leaves it with its
\* response sent and its connection closed.
C31_FailureNotFatal ==
    [][\A t \in 1..NUM_STAGES :
          (shutdown_flag' = 0 /\ job[t] \in 1..MaxJobs /\ job'[t] # job[t]) =>
              LET j == job[t] IN
              /\ ResultSet(t, jobs'[j])
              /\ t \in jobs'[j].failed <=> ~KernelSucceeds(t, j)
              /\ IF t < NUM_STAGES
                     THEN /\ fifo'[t + 1] = Append(fifo[t + 1], j)
                          /\ jobs'[j].client_sock = "open"
                     ELSE /\ jobs'[j].final_response # <<>>
                          /\ jobs'[j].client_sock = "closed"
      ]_vars

\* The graphs of the first two jobs and what the kernels return on them.
OneVertex == [u \in 0..0 |-> <<>>]
OneEdge == graph_add_edge("g", [u \in 0..2 |-> <<>>], 0, 1, <<TRUE, TRUE>>).adj
KernelsFailAsModelled ==
    /\ graph_max_flow_default("g", 1, OneVertex, TRUE, 0).ret = 0
    /\ graph_mst_prim("g", 1, OneVertex, "ok").ret = 1
    /\ graph_mst_prim("g", 3, OneEdge, "ok").out.is_connected = 0
    /\ graph_max_flow_default("g", 3, OneEdge, TRUE, 0).ret = 1

\* The job whose max flow failed has been answered, and the job whose MST
\* failed is past stage 2, with no shutdown.
C31_Witness ==
    /\ shutdown_flag = 0
    /\ jobs[1].failed = {2}
    /\ jobs[1].client_sock = "closed" /\ jobs[1].final_response # <<>>
    /\ jobs[2].failed = {1}
    /\ Len(jobs[2].visited) >= 2
    /\ KernelsFailAsModelled

(***************************************************************************)
(*              PROPERTIES OF THE PIPELINE: ORDER AND PROGRESS             *)
(***************************************************************************)

\* The jobs stage queue q holds, the oldest first, as its ring has them.
Held(q) == [i \in 1..count[q] |-> queue[q][(head[q] + i - 1) % MAX_QUEUE]]

\* Job j is in the pipeline: in a stage queue or in the hands of a stage
\* worker.  Its response is sent once stage 4 has composed it.
Queued(q, j) == \E i \in 1..count[q] : Held(q)[i] = j
InPipeline(j) ==
    \/ \E q \in 1..NUM_STAGES : Queued(q, j)
    \/ \E t \in 1..NUM_STAGES : job[t] = j
ResponseSent(j) == jobs[j].final_response # <<>>

\* How far job j has come, 0 if it is not in the pipeline: the jobs of
\* queue q come before the job with worker q, the older ones of a queue
\* before the younger.
Rank(j) ==
    IF \E t \in 1..NUM_STAGES : job[t] = j
        THEN (2 * (CHOOSE t \in 1..NUM_STAGES : job[t] = j)) * (MAX_QUEUE + 1)
    ELSE IF \E q \in 1..NUM_STAGES : Queued(q, j)
        THEN LET q == CHOOSE r \in 1..NUM_STAGES : Queued(r, j)
                 i == CHOOSE k \in 1..count[q] : Held(q)[k] = j
             IN  (2 * q - 1) * (MAX_QUEUE + 1) + (MAX_QUEUE + 1 - i)
    ELSE 0

\* Job a is ahead of job b, both in the pipeline.
Ahead(a, b) == Rank(a) > Rank(b)

\* C34. Order is kept from end to end: absent shutdown the responses are
\* sent in the order in which the jobs entered Q1, no job overtaking
\* another between stages.  A job that enters Q1 is behind every job in
\* the pipeline; of two jobs in the pipeline one is ahead, stays ahead, and
\* the one behind stays in the pipeline until the one ahead has had its
\* response sent.
C34_OrderPreserved ==
    [][(/\ shutdown_flag' = 0
        /\ <<queue, head, count, job, jobs>>' # <<queue, head, count, job, jobs>>) =>
          LET r == [j \in 1..MaxJobs |-> Rank(j)]
              n == [j \in 1..MaxJobs |-> Rank(j)']
          IN  \A a, b \in 1..MaxJobs :
                /\ (a # b /\ r[a] > 0 /\ r[b] > 0) => r[a] # r[b]
                /\ (r[a] > r[b] /\ r[b] > 0) =>
                       /\ n[b] > 0 /\ ~ResponseSent(b)'
                       /\ IF n[a] > 0 THEN n[a] > n[b] ELSE ResponseSent(a)'
                /\ (a # b /\ r[a] > 0 /\ r[b] = 0 /\ n[b] > 0) =>
                       /\ ~ResponseSent(b)
                       /\ n[a] > 0 => n[a] > n[b]
                /\ ResponseSent(a) => ResponseSent(a)' /\ r[a] = 0
      ]_vars

\* Three jobs in the pipeline at once, the first with stage 3, the others
\* together in one queue behind it.
C34_Witness ==
    /\ shutdown_flag = 0
    /\ \E a, b, c \in 1..MaxJobs :
           /\ job[3] = a
           /\ \E q \in 1..NUM_STAGES : Queued(q, b) /\ Queued(q, c) /\ Ahead(b, c)
           /\ Ahead(a, b)
           /\ b > c

\* Job j has been pushed onto Q1 (stage by stage).
HasEntered(j) == Rank(j) > 0 \/ jobs[j].visited # <<>>

\* Progress of the pipeline followed step by step, lock by lock and signal
\* by signal, a few jobs at a time: no wakeup is lost.
EveryEnteredJobAnswered ==
    []<>(\A j \in 1..MaxJobs : HasEntered(j) => ResponseSent(j))

\* A job is somewhere between stage1_queue and the send of stage 4.
JobsInFlight == Cardinality(answered) < entered

\* Every queue is full, stages 1 to 3 each hold a job they cannot push and
\* a handler waits for room in stage1_queue.
EveryQueueFull ==
    /\ \A q \in Queues : Len(stage_queue[q]) = MAX_QUEUE
    /\ \A t \in 1..(NUM_STAGES - 1) : stage_job[t] # 0
    /\ handlers > 0

\* C35. Pipeline progress: absent shutdown, the kernels returning and the
\* threads scheduled fairly, every job pushed onto Q1 eventually has its
\* response sent by stage 4; and the stages and queues do not deadlock,
\* every queue full included: while a job is in flight some stage worker
\* can step.  (A job pushed stays pushed and a response sent stays sent, so
\* that each job is answered after it was pushed exactly when, again and
\* again, all that were pushed are answered.)
C35_EveryJobAnswered ==
    /\ [](JobsInFlight => \E t \in Stages : ENABLED StageStep(t))
    /\ []<>(\A j \in 1..entered : j \in answered)

\* Every queue is full with stages 1 to 3 blocked on their pushes, and
\* stage 4 holds a job whose response it is about to send.
C35_Witness ==
    /\ EveryQueueFull
    /\ stage_job[NUM_STAGES] # 0

====
